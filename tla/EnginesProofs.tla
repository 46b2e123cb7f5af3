---------------------------- MODULE EnginesProofs ----------------------------
(***************************************************************************)
(* The engines for any batches, shards, bitsets and tables, any number of  *)
(* goroutines and any order in which they run: a search returns the hits   *)
(* of its batch, a count is the size of the intersection, the kernels      *)
(* agree with the sets of bits, and a term has its own synonyms.  What a   *)
(* pure definition computes comes first in each part, as lemmas about its  *)
(* loop, then the invariant of the calls that use it.                      *)
(***************************************************************************)
EXTENDS Engines, SetOpsProofs

-----------------------------------------------------------------------------
(* The loops of the engines, as equations *)

\* AddUp.
LEMMA AddUpEquation ==
  ASSUME NEW s \in Seq(Nat)
  PROVE  \E f \in [0..Len(s) -> Nat] :
           /\ AddUp(s) = f[Len(s)]
           /\ f[0] = 0
           /\ \A k \in 1..Len(s) : f[k] = f[k - 1] + s[k]
<1> DEFINE n == Len(s)
           V == Nat
           body(g) == [k \in 0..n |-> IF k = 0 THEN 0 ELSE g[k - 1] + s[k]]
           next == [p \in (1..n) \X V |-> p[2] + s[p[1]]]
           f == CHOOSE f : f = body(f)
<1>1. n \in Nat /\ 0 \in V /\ \A k \in 1..n : s[k] \in Nat
  BY LenProperties, ElementOfSeq
<1>2. Loop(n, V, 0, next)
  <2>1. next \in [(1..n) \X V -> V]
    <3> SUFFICES ASSUME NEW p \in (1..n) \X V PROVE p[2] + s[p[1]] \in V
      OBVIOUS
    <3>1. p[2] \in Nat /\ s[p[1]] \in Nat
      BY <1>1
    <3> QED
      BY <3>1
  <2> HIDE DEF next
  <2> QED
    BY <1>1, <2>1 DEF Loop
<1>3. PICK g \in [0..n -> V] : g = [k \in 0..n |-> IF k = 0 THEN 0 ELSE next[<<k, g[k - 1]>>]]
  <2> HIDE DEF next
  <2>1. HasRounds(n, V, 0, next)
    BY <1>2, LoopSolution
  <2> QED
    BY <2>1 DEF HasRounds
<1>4. g = body(g)
  <2>1. \A k \in 0..n : k # 0 => k \in 1..n /\ k - 1 \in 0..n
    BY <1>1
  <2>2. \A k \in 0..n : k # 0 => next[<<k, g[k - 1]>>] = g[k - 1] + s[k]
    <3> HIDE DEF V, n
    <3> QED
      BY <2>1
  <2> HIDE DEF next, V, n
  <2> QED
    BY <1>3, <2>2
<1>5. f = body(f)
  <2> HIDE DEF body
  <2> QED
    BY <1>4
<1>6. AddUp(s) = f[n]
  BY Zenon DEF AddUp
<1> HIDE DEF f
<1>7. f[0] = 0 /\ \A k \in 1..n : f[k] = f[k - 1] + s[k]
  <2>1. 0 \in 0..n /\ \A k \in 1..n : k \in 0..n /\ k # 0
    BY <1>1
  <2> HIDE DEF n
  <2>2. f = [k \in 0..n |-> IF k = 0 THEN 0 ELSE f[k - 1] + s[k]]
    BY <1>5
  <2> QED
    BY <2>1, <2>2
<1>8. f \in [0..n -> V]
  <2>1. f = [k \in 0..n |-> f[k]]
    BY <1>5
  <2>2. \A k \in 1..n : f[k - 1] \in V => f[k] = next[<<k, f[k - 1]>>]
    <3> HIDE DEF V, n
    <3> QED
      BY <1>7
  <2> HIDE DEF V, n, next
  <2>3. Rounds(f, n, V, 0, next)
    BY <1>7, <2>1, <2>2 DEF Rounds
  <2> QED
    BY <1>2, <2>3, LoopType
<1> QED
  BY <1>6, <1>7, <1>8

\* Unique.
LEMMA UniqueEquation ==
  ASSUME NEW s \in Seq(Nat)
  PROVE  \E f \in [0..Len(s) -> Seq(Nat)] :
           /\ Unique(s) = f[Len(s)]
           /\ f[0] = <<>>
           /\ \A k \in 1..Len(s) : f[k] = IF s[k] \in Elems(f[k - 1]) THEN f[k - 1] ELSE Append(f[k - 1], s[k])
<1> DEFINE n == Len(s)
           V == Seq(Nat)
           body(g) == [k \in 0..n |-> IF k = 0 THEN <<>> ELSE IF s[k] \in Elems(g[k - 1]) THEN g[k - 1] ELSE Append(g[k - 1], s[k])]
           next == [p \in (1..n) \X V |-> IF s[p[1]] \in Elems(p[2]) THEN p[2] ELSE Append(p[2], s[p[1]])]
           f == CHOOSE f : f = body(f)
<1>1. n \in Nat /\ <<>> \in V /\ \A k \in 1..n : s[k] \in Nat
  BY LenProperties, ElementOfSeq
<1>2. Loop(n, V, <<>>, next)
  <2>1. next \in [(1..n) \X V -> V]
    <3> SUFFICES ASSUME NEW p \in (1..n) \X V, s[p[1]] \notin Elems(p[2]) PROVE Append(p[2], s[p[1]]) \in V
      OBVIOUS
    <3> QED
      BY <1>1, AppendProperties
  <2> HIDE DEF next
  <2> QED
    BY <1>1, <2>1 DEF Loop
<1>3. PICK g \in [0..n -> V] : g = [k \in 0..n |-> IF k = 0 THEN <<>> ELSE next[<<k, g[k - 1]>>]]
  <2> HIDE DEF next
  <2>1. HasRounds(n, V, <<>>, next)
    BY <1>2, LoopSolution
  <2> QED
    BY <2>1 DEF HasRounds
<1>4. g = body(g)
  <2>1. \A k \in 0..n : k # 0 => k \in 1..n /\ k - 1 \in 0..n
    BY <1>1
  <2>2. \A k \in 0..n : k # 0 => next[<<k, g[k - 1]>>] = IF s[k] \in Elems(g[k - 1]) THEN g[k - 1] ELSE Append(g[k - 1], s[k])
    <3> HIDE DEF V, n
    <3> QED
      BY <2>1
  <2> HIDE DEF next, V, n
  <2> QED
    BY <1>3, <2>2
<1>5. f = body(f)
  <2> HIDE DEF body
  <2> QED
    BY <1>4
<1>6. Unique(s) = f[n]
  BY Zenon DEF Unique
<1> HIDE DEF f
<1>7. f[0] = <<>> /\ \A k \in 1..n : f[k] = IF s[k] \in Elems(f[k - 1]) THEN f[k - 1] ELSE Append(f[k - 1], s[k])
  <2>1. 0 \in 0..n /\ \A k \in 1..n : k \in 0..n /\ k # 0
    BY <1>1
  <2> HIDE DEF n
  <2>2. f = [k \in 0..n |-> IF k = 0 THEN <<>> ELSE IF s[k] \in Elems(f[k - 1]) THEN f[k - 1] ELSE Append(f[k - 1], s[k])]
    BY <1>5
  <2> QED
    BY <2>1, <2>2
<1>8. f \in [0..n -> V]
  <2>1. f = [k \in 0..n |-> f[k]]
    BY <1>5
  <2>2. \A k \in 1..n : f[k - 1] \in V => f[k] = next[<<k, f[k - 1]>>]
    <3> HIDE DEF V, n
    <3> QED
      BY <1>7
  <2> HIDE DEF V, n, next
  <2>3. Rounds(f, n, V, <<>>, next)
    BY <1>7, <2>1, <2>2 DEF Rounds
  <2> QED
    BY <1>2, <2>3, LoopType
<1> QED
  BY <1>6, <1>7, <1>8

\* SearchSortedBatch, id by id.
Batched(t, s, f) ==
  /\ f \in [0..Len(s) -> Seq(Nat)]
  /\ SearchSortedBatch(t, s) = f[Len(s)]
  /\ f[0] = <<>>
  /\ \A k \in 1..Len(s) :
       f[k] = IF ~(\E i \in 1..k - 1 : s[i] = s[k]) /\ ContainsSorted(t, s[k])
              THEN Append(f[k - 1], s[k]) ELSE f[k - 1]

LEMMA BatchEquation ==
  ASSUME NEW s \in Seq(Nat), NEW t
  PROVE  \E f : Batched(t, s, f)
<1> DEFINE n == Len(s)
           V == Seq(Nat)
           body(g) == [k \in 0..n |-> IF k = 0 THEN <<>> ELSE IF ~(\E i \in 1..k - 1 : s[i] = s[k]) /\ ContainsSorted(t, s[k])
                  THEN Append(g[k - 1], s[k]) ELSE g[k - 1]]
           next == [p \in (1..n) \X V |-> IF ~(\E i \in 1..p[1] - 1 : s[i] = s[p[1]]) /\ ContainsSorted(t, s[p[1]])
                  THEN Append(p[2], s[p[1]]) ELSE p[2]]
           f == CHOOSE f : f = body(f)
<1>1. n \in Nat /\ <<>> \in V /\ \A k \in 1..n : s[k] \in Nat
  BY LenProperties, ElementOfSeq
<1>2. Loop(n, V, <<>>, next)
  <2>1. next \in [(1..n) \X V -> V]
    <3> SUFFICES ASSUME NEW p \in (1..n) \X V PROVE Append(p[2], s[p[1]]) \in V
      OBVIOUS
    <3> QED
      BY <1>1, AppendProperties
  <2> HIDE DEF next
  <2> QED
    BY <1>1, <2>1 DEF Loop
<1>3. PICK g \in [0..n -> V] : g = [k \in 0..n |-> IF k = 0 THEN <<>> ELSE next[<<k, g[k - 1]>>]]
  <2> HIDE DEF next
  <2>1. HasRounds(n, V, <<>>, next)
    BY <1>2, LoopSolution
  <2> QED
    BY <2>1 DEF HasRounds
<1>4. g = body(g)
  <2>1. \A k \in 0..n : k # 0 => k \in 1..n /\ k - 1 \in 0..n
    BY <1>1
  <2>2. \A k \in 0..n : k # 0 => next[<<k, g[k - 1]>>] = IF ~(\E i \in 1..k - 1 : s[i] = s[k]) /\ ContainsSorted(t, s[k])
                  THEN Append(g[k - 1], s[k]) ELSE g[k - 1]
    <3> HIDE DEF V, n
    <3> QED
      BY <2>1
  <2> HIDE DEF next, V, n
  <2> QED
    BY <1>3, <2>2
<1>5. f = body(f)
  <2> HIDE DEF body
  <2> QED
    BY <1>4
<1>6. SearchSortedBatch(t, s) = f[n]
  BY Zenon DEF SearchSortedBatch
<1> HIDE DEF f
<1>7. f[0] = <<>> /\ \A k \in 1..n : f[k] = IF ~(\E i \in 1..k - 1 : s[i] = s[k]) /\ ContainsSorted(t, s[k])
                  THEN Append(f[k - 1], s[k]) ELSE f[k - 1]
  <2>1. 0 \in 0..n /\ \A k \in 1..n : k \in 0..n /\ k # 0
    BY <1>1
  <2> HIDE DEF n
  <2>2. f = [k \in 0..n |-> IF k = 0 THEN <<>> ELSE IF ~(\E i \in 1..k - 1 : s[i] = s[k]) /\ ContainsSorted(t, s[k])
                  THEN Append(f[k - 1], s[k]) ELSE f[k - 1]]
    BY <1>5
  <2> QED
    BY <2>1, <2>2
<1>8. f \in [0..n -> V]
  <2>1. f = [k \in 0..n |-> f[k]]
    BY <1>5
  <2>2. \A k \in 1..n : f[k - 1] \in V => f[k] = next[<<k, f[k - 1]>>]
    <3> HIDE DEF V, n
    <3> QED
      BY <1>7
  <2> HIDE DEF V, n, next
  <2>3. Rounds(f, n, V, <<>>, next)
    BY <1>7, <2>1, <2>2 DEF Rounds
  <2> QED
    BY <1>2, <2>3, LoopType
<1> QED
  BY <1>6, <1>7, <1>8 DEF Batched

\* The ids of a list that are also in a set.
LEMMA KeptEquation ==
  ASSUME NEW s \in Seq(Nat), NEW A
  PROVE  \E f \in [0..Len(s) -> Seq(Nat)] :
           /\ Kept(s, A) = f
           /\ f[0] = <<>>
           /\ \A k \in 1..Len(s) : f[k] = IF s[k] \in A THEN Append(f[k - 1], s[k]) ELSE f[k - 1]
<1> DEFINE n == Len(s)
           V == Seq(Nat)
           body(g) == [k \in 0..n |-> IF k = 0 THEN <<>> ELSE IF s[k] \in A THEN Append(g[k - 1], s[k]) ELSE g[k - 1]]
           next == [p \in (1..n) \X V |-> IF s[p[1]] \in A THEN Append(p[2], s[p[1]]) ELSE p[2]]
           f == CHOOSE f : f = body(f)
<1>1. n \in Nat /\ <<>> \in V /\ \A k \in 1..n : s[k] \in Nat
  BY LenProperties, ElementOfSeq
<1>2. Loop(n, V, <<>>, next)
  <2>1. next \in [(1..n) \X V -> V]
    <3> SUFFICES ASSUME NEW p \in (1..n) \X V, s[p[1]] \in A PROVE Append(p[2], s[p[1]]) \in V
      OBVIOUS
    <3> QED
      BY <1>1, AppendProperties
  <2> HIDE DEF next
  <2> QED
    BY <1>1, <2>1 DEF Loop
<1>3. PICK g \in [0..n -> V] : g = [k \in 0..n |-> IF k = 0 THEN <<>> ELSE next[<<k, g[k - 1]>>]]
  <2> HIDE DEF next
  <2>1. HasRounds(n, V, <<>>, next)
    BY <1>2, LoopSolution
  <2> QED
    BY <2>1 DEF HasRounds
<1>4. g = body(g)
  <2>1. \A k \in 0..n : k # 0 => k \in 1..n /\ k - 1 \in 0..n
    BY <1>1
  <2>2. \A k \in 0..n : k # 0 => next[<<k, g[k - 1]>>] = IF s[k] \in A THEN Append(g[k - 1], s[k]) ELSE g[k - 1]
    <3> HIDE DEF V, n
    <3> QED
      BY <2>1
  <2> HIDE DEF next, V, n
  <2> QED
    BY <1>3, <2>2
<1>5. f = body(f)
  <2> HIDE DEF body
  <2> QED
    BY <1>4
<1>6. Kept(s, A) = f
  BY Zenon DEF Kept
<1> HIDE DEF f
<1>7. f[0] = <<>> /\ \A k \in 1..n : f[k] = IF s[k] \in A THEN Append(f[k - 1], s[k]) ELSE f[k - 1]
  <2>1. 0 \in 0..n /\ \A k \in 1..n : k \in 0..n /\ k # 0
    BY <1>1
  <2> HIDE DEF n
  <2>2. f = [k \in 0..n |-> IF k = 0 THEN <<>> ELSE IF s[k] \in A THEN Append(f[k - 1], s[k]) ELSE f[k - 1]]
    BY <1>5
  <2> QED
    BY <2>1, <2>2
<1>8. f \in [0..n -> V]
  <2>1. f = [k \in 0..n |-> f[k]]
    BY <1>5
  <2>2. \A k \in 1..n : f[k - 1] \in V => f[k] = next[<<k, f[k - 1]>>]
    <3> HIDE DEF V, n
    <3> QED
      BY <1>7
  <2> HIDE DEF V, n, next
  <2>3. Rounds(f, n, V, <<>>, next)
    BY <1>7, <2>1, <2>2 DEF Rounds
  <2> QED
    BY <1>2, <2>3, LoopType
<1> QED
  BY <1>6, <1>7, <1>8

-----------------------------------------------------------------------------
(* A search, as a function of the batch and the shard *)

\* One more id does not change what comes before it.
LEMMA UniqueAppend ==
  ASSUME NEW s \in Seq(Nat), NEW x \in Nat
  PROVE  /\ Unique(s) \in Seq(Nat) /\ Elems(Unique(s)) = Elems(s)
         /\ Unique(Append(s, x)) = IF x \in Elems(s) THEN Unique(s) ELSE Append(Unique(s), x)
<1> DEFINE n == Len(s)
           t == Append(s, x)
<1>1. /\ n \in Nat /\ t \in Seq(Nat) /\ Len(t) = n + 1 /\ t[n + 1] = x
      /\ \A k \in 1..n : t[k] = s[k] /\ s[k] \in Nat
  BY LenProperties, ElementOfSeq, AppendProperties
<1>2. PICK f \in [0..n -> Seq(Nat)] :
        /\ Unique(s) = f[n]
        /\ f[0] = <<>>
        /\ \A k \in 1..n : f[k] = IF s[k] \in Elems(f[k - 1]) THEN f[k - 1] ELSE Append(f[k - 1], s[k])
  BY UniqueEquation
<1>3. PICK g \in [0..n + 1 -> Seq(Nat)] :
        /\ Unique(t) = g[n + 1]
        /\ g[0] = <<>>
        /\ \A k \in 1..n + 1 : g[k] = IF t[k] \in Elems(g[k - 1]) THEN g[k - 1] ELSE Append(g[k - 1], t[k])
  BY <1>1, UniqueEquation
<1> HIDE DEF t, n
<1> DEFINE S == {k \in 0..n : g[k] = f[k] /\ Elems(f[k]) = {s[i] : i \in 1..k}}
<1>4. 0 \in S
  <2>1. Elems(<<>>) = {} /\ 1..0 = {}
    BY DEF Elems
  <2> QED
    <3>1. 0 \in 0..n /\ g[0] = f[0]
      BY <1>1, <1>2, <1>3
    <3>2. Elems(f[0]) = {s[i] : i \in 1..0}
      BY <1>2, <2>1
    <3> QED
      BY <3>1, <3>2
<1>5. ASSUME NEW k \in 1..n, k - 1 \in S PROVE k \in S
  <2>1. /\ k \in 0..n /\ k - 1 \in 0..n /\ k \in 1..n + 1 /\ t[k] = s[k] /\ s[k] \in Nat
        /\ g[k - 1] = f[k - 1] /\ Elems(f[k - 1]) = {s[i] : i \in 1..k - 1}
    BY <1>1, <1>5, SMTT(30)
  <2>2. f[k] = IF s[k] \in Elems(f[k - 1]) THEN f[k - 1] ELSE Append(f[k - 1], s[k])
    BY <1>2, <2>1
  <2>3. g[k] = f[k]
    BY <1>3, <2>1, <2>2
  <2>4. {s[i] : i \in 1..k} = {s[i] : i \in 1..k - 1} \cup {s[k]}
    <3>1. 1..k = (1..k - 1) \cup {k}
      BY <2>1
    <3> QED
      BY <3>1
  <2>5. f[k - 1] \in Seq(Nat)
    BY <1>2, <2>1
  <2>6. Elems(Append(f[k - 1], s[k])) = Elems(f[k - 1]) \cup {s[k]}
    BY <2>1, <2>5, ElemsAppend
  <2> QED
    BY <2>1, <2>2, <2>3, <2>4, <2>6
<1>6. n \in S
  <2>1. \A k \in 0..n : k \in S
    <3> HIDE DEF S
    <3> QED
      BY <1>1, <1>4, <1>5, LoopInvariant
  <2> QED
    BY <1>1, <2>1, SMTT(30)
<1>7. g[n] = f[n] /\ Elems(f[n]) = Elems(s) /\ f[n] \in Seq(Nat)
  <2>1. Elems(s) = {s[i] : i \in 1..n} /\ n \in 0..n
    BY <1>1, ElemsFacts DEF n
  <2> QED
    BY <1>2, <1>6, <2>1
<1>8. g[n + 1] = IF x \in Elems(g[n]) THEN g[n] ELSE Append(g[n], x)
  <2>1. n + 1 \in 1..n + 1 /\ (n + 1) - 1 = n
    BY <1>1
  <2> QED
    BY <1>1, <1>3, <2>1
<1> QED
  BY <1>2, <1>3, <1>7, <1>8 DEF t

\* The hits of the first k ids of a batch are the ones among them that the shard
\* has.
LEMMA HitsOfPrefix ==
  ASSUME NEW s \in Seq(Nat), NEW A
  PROVE  \A k \in 0..Len(s) :
           /\ Kept(s, A)[k] \in Seq(Nat)
           /\ Elems(Kept(s, A)[k]) = {s[i] : i \in 1..k} \cap A
<1> DEFINE n == Len(s)
           f == Kept(s, A)
<1>1. n \in Nat /\ \A k \in 1..n : s[k] \in Nat
  BY LenProperties, ElementOfSeq
<1>2. /\ f \in [0..n -> Seq(Nat)] /\ f[0] = <<>>
      /\ \A k \in 1..n : f[k] = IF s[k] \in A THEN Append(f[k - 1], s[k]) ELSE f[k - 1]
  BY KeptEquation
<1> HIDE DEF n, f
<1> DEFINE S == {k \in 0..n : Elems(f[k]) = {s[i] : i \in 1..k} \cap A}
<1>3. 0 \in S
  <2>1. Elems(<<>>) = {} /\ 1..0 = {}
    BY DEF Elems
  <2> QED
    BY <1>1, <1>2, <2>1
<1>4. ASSUME NEW k \in 1..n, k - 1 \in S PROVE k \in S
  <2>1. /\ k \in 0..n /\ k - 1 \in 0..n /\ s[k] \in Nat
        /\ Elems(f[k - 1]) = {s[i] : i \in 1..k - 1} \cap A
    BY <1>1, <1>4
  <2>2. {s[i] : i \in 1..k} = {s[i] : i \in 1..k - 1} \cup {s[k]}
    <3>1. 1..k = (1..k - 1) \cup {k}
      BY <2>1
    <3> QED
      BY <3>1
  <2>3. f[k - 1] \in Seq(Nat)
    BY <1>2, <2>1
  <2>4. Elems(Append(f[k - 1], s[k])) = Elems(f[k - 1]) \cup {s[k]}
    BY <2>1, <2>3, ElemsAppend
  <2> QED
    BY <1>2, <2>1, <2>2, <2>4
<1>5. \A k \in 0..n : k \in S
  <2> HIDE DEF S
  <2> QED
    BY <1>1, <1>3, <1>4, LoopInvariant
<1> QED
  BY <1>2, <1>5 DEF n, f

\* The search of a sorted shard finds the hits, each once.
LEMMA SortedSearchFindsHits ==
  ASSUME NEW s \in Seq(Nat), NEW shard \in Seq(Nat)
  PROVE  SearchSortedBatch(Sort(shard), s) = Unique(Kept(s, Elems(shard))[Len(s)])
<1> DEFINE n == Len(s)
           A == Elems(shard)
           f == Kept(s, A)
           t == Sort(shard)
<1>1. n \in Nat /\ \A k \in 1..n : s[k] \in Nat
  BY LenProperties, ElementOfSeq
<1>2. /\ f \in [0..n -> Seq(Nat)] /\ f[0] = <<>>
      /\ \A k \in 1..n : f[k] = IF s[k] \in A THEN Append(f[k - 1], s[k]) ELSE f[k - 1]
  BY KeptEquation
<1>3. \A k \in 0..n : Elems(f[k]) = {s[i] : i \in 1..k} \cap A
  BY HitsOfPrefix
<1>4. PICK g \in [0..n -> Seq(Nat)] :
        /\ SearchSortedBatch(t, s) = g[n]
        /\ g[0] = <<>>
        /\ \A k \in 1..n : g[k] = IF ~(\E i \in 1..k - 1 : s[i] = s[k]) /\ ContainsSorted(t, s[k])
                                  THEN Append(g[k - 1], s[k]) ELSE g[k - 1]
  <2> HIDE DEF t, f, A
  <2>1. \E g : Batched(t, s, g)
    BY BatchEquation
  <2> QED
    BY <2>1 DEF Batched
<1>5. \A k \in 1..n : ContainsSorted(t, s[k]) <=> s[k] \in A
  <2>1. t \in Seq(Nat) /\ Sorted(t) /\ Elems(t) = A
    BY SortSorts DEF Sorted
  <2> HIDE DEF t, A
  <2> QED
    BY <1>1, <2>1, ContainsIsMembership
<1> HIDE DEF n, f, A, t
<1> DEFINE S == {k \in 0..n : Unique(f[k]) = g[k]}
<1>6. 0 \in S
  <2>1. Unique(<<>>) = <<>>
    <3>1. <<>> \in Seq(Nat) /\ Len(<<>>) = 0
      OBVIOUS
    <3> QED
      BY <3>1, UniqueEquation
  <2> QED
    BY <1>1, <1>2, <1>4, <2>1
<1>7. ASSUME NEW k \in 1..n, k - 1 \in S PROVE k \in S
  <2>1. /\ k \in 0..n /\ k - 1 \in 0..n /\ s[k] \in Nat /\ f[k - 1] \in Seq(Nat)
        /\ Unique(f[k - 1]) = g[k - 1] /\ Elems(f[k - 1]) = {s[i] : i \in 1..k - 1} \cap A
    <3>1. k \in 0..n /\ k - 1 \in 0..n /\ s[k] \in Nat
      BY <1>1
    <3>2. Unique(f[k - 1]) = g[k - 1]
      BY <1>7
    <3> QED
      BY <1>2, <1>3, <3>1, <3>2
  <2>2. f[k] = IF s[k] \in A THEN Append(f[k - 1], s[k]) ELSE f[k - 1]
    BY <1>2
  <2>3. g[k] = IF ~(\E i \in 1..k - 1 : s[i] = s[k]) /\ s[k] \in A
               THEN Append(g[k - 1], s[k]) ELSE g[k - 1]
    BY <1>4, <1>5
  <2>4. Unique(Append(f[k - 1], s[k])) =
          IF s[k] \in Elems(f[k - 1]) THEN Unique(f[k - 1]) ELSE Append(Unique(f[k - 1]), s[k])
    BY <2>1, UniqueAppend
  <2>5. s[k] \in A => (s[k] \in Elems(f[k - 1]) <=> \E i \in 1..k - 1 : s[i] = s[k])
    BY <2>1
  <2>6. Unique(f[k]) = g[k]
    <3>1. CASE s[k] \in A
      BY <2>1, <2>2, <2>3, <2>4, <2>5, <3>1
    <3>2. CASE s[k] \notin A
      BY <2>1, <2>2, <2>3, <3>2
    <3> QED
      BY <3>1, <3>2
  <2> QED
    BY <2>1, <2>6
<1>8. n \in S
  <2>1. \A k \in 0..n : k \in S
    <3> HIDE DEF S
    <3> QED
      BY <1>1, <1>6, <1>7, LoopInvariant
  <2> QED
    BY <1>1, <2>1
<1> QED
  BY <1>4, <1>8 DEF n, f, A, t

\* The first place of an id.
IsFirst(s, x, i) == i \in DOMAIN s /\ s[i] = x /\ \A k \in 1..i - 1 : s[k] # x

FirstPlace(s, x) ==
  CHOOSE i \in DOMAIN s : s[i] = x /\ \A k \in 1..i - 1 : s[k] # x

LEMMA FirstPlaceIsFirst ==
  ASSUME NEW s \in Seq(Nat), NEW x \in Elems(s)
  PROVE  IsFirst(s, x, FirstPlace(s, x))
<1>1. Len(s) \in Nat /\ DOMAIN s = 1..Len(s)
  BY LenProperties
<1>2. \E i \in DOMAIN s : IsFirst(s, x, i)
  <2> SUFFICES ASSUME \A i \in DOMAIN s : ~IsFirst(s, x, i) PROVE FALSE
    OBVIOUS
  <2> DEFINE S == {k \in 0..Len(s) : \A i \in 1..k : s[i] # x}
  <2>1. 0 \in S
    BY <1>1
  <2>2. ASSUME NEW k \in 1..Len(s), k - 1 \in S PROVE k \in S
    <3>1. s[k] # x
      BY <1>1, <2>2 DEF IsFirst
    <3> QED
      BY <2>2, <3>1
  <2>3. Len(s) \in S
    <3>1. \A k \in 0..Len(s) : k \in S
      <4> HIDE DEF S
      <4> QED
        BY <1>1, <2>1, <2>2, LoopInvariant
    <3> QED
      BY <1>1, <3>1
  <2> QED
    BY <1>1, <2>3 DEF Elems
<1> QED
  BY <1>2 DEF IsFirst, FirstPlace

LEMMA FirstPlaceIsUnique ==
  ASSUME NEW s \in Seq(Nat), NEW x, NEW i, IsFirst(s, x, i)
  PROVE  FirstPlace(s, x) = i
<1>1. DOMAIN s = 1..Len(s) /\ Len(s) \in Nat
  BY LenProperties
<1>2. IsFirst(s, x, FirstPlace(s, x))
  BY DEF IsFirst, FirstPlace
<1> QED
  BY <1>1, <1>2 DEF IsFirst

\* The ids of a search come in the order of their first places in the batch.
InOrderOf(s, t) ==
  \A i, k \in DOMAIN t : i < k => FirstPlace(s, t[i]) < FirstPlace(s, t[k])

LEMMA HitsKeepTheOrder ==
  ASSUME NEW s \in Seq(Nat), NEW shard \in Seq(Nat)
  PROVE  InOrderOf(s, SearchSortedBatch(Sort(shard), s))
<1> DEFINE n == Len(s)
           t == Sort(shard)
<1>1. n \in Nat /\ \A k \in 1..n : s[k] \in Nat
  BY LenProperties, ElementOfSeq
<1>2. PICK g \in [0..n -> Seq(Nat)] :
        /\ SearchSortedBatch(t, s) = g[n]
        /\ g[0] = <<>>
        /\ \A k \in 1..n : g[k] = IF ~(\E i \in 1..k - 1 : s[i] = s[k]) /\ ContainsSorted(t, s[k])
                                  THEN Append(g[k - 1], s[k]) ELSE g[k - 1]
  <2> HIDE DEF t
  <2>1. \E g : Batched(t, s, g)
    BY BatchEquation
  <2> QED
    BY <2>1 DEF Batched
<1> HIDE DEF t
<1> DEFINE Good(k) == /\ InOrderOf(s, g[k])
                      /\ \A i \in DOMAIN g[k] : FirstPlace(s, g[k][i]) \in 1..k
           S == {k \in 0..n : Good(k)}
<1>3. 0 \in S
  <2>1. DOMAIN g[0] = {}
    BY <1>2
  <2> QED
    BY <1>1, <2>1 DEF InOrderOf
<1>4. ASSUME NEW k \in 1..n, k - 1 \in S PROVE k \in S
  <2>1. k \in 0..n /\ k - 1 \in 0..n /\ k \in Nat /\ s[k] \in Nat /\ g[k - 1] \in Seq(Nat)
    <3>1. k \in 0..n /\ k - 1 \in 0..n /\ k \in Nat /\ s[k] \in Nat
      BY <1>1
    <3> QED
      BY <1>2, <3>1
  <2>2. Good(k - 1)
    <3> HIDE DEF Good
    <3> QED
      BY <1>4
  <2>3. CASE g[k] = g[k - 1]
    <3>1. Good(k)
      <4>1. 1..k - 1 \subseteq 1..k
        BY <2>1
      <4> QED
        BY <2>2, <2>3, <4>1
    <3> HIDE DEF Good
    <3> QED
      BY <2>1, <3>1
  <2>4. CASE g[k] = Append(g[k - 1], s[k]) /\ ~(\E i \in 1..k - 1 : s[i] = s[k])
    <3> DEFINE h == g[k - 1]
               m == Len(h)
    <3>1. IsFirst(s, s[k], k)
      BY <1>1, <2>4, LenProperties DEF IsFirst
    <3>2. FirstPlace(s, s[k]) = k
      BY <3>1, FirstPlaceIsUnique
    <3>3. m \in Nat /\ DOMAIN h = 1..m
      BY <2>1, LenProperties
    <3>4. /\ DOMAIN g[k] = 1..m + 1 /\ g[k][m + 1] = s[k]
          /\ \A i \in 1..m : g[k][i] = h[i]
      BY <2>1, <2>4, AppendProperties, LenProperties
    <3>5. \A i \in 1..m : FirstPlace(s, h[i]) \in 1..k - 1
      BY <2>2, <3>3
    <3>6. \A i, j \in 1..m : i < j => FirstPlace(s, h[i]) < FirstPlace(s, h[j])
      BY <2>2, <3>3 DEF InOrderOf
    <3> HIDE DEF h, m
    <3>7. ASSUME NEW i \in 1..m + 1, NEW j \in 1..m + 1, i < j
          PROVE  FirstPlace(s, g[k][i]) < FirstPlace(s, g[k][j])
      <4>1. i \in 1..m /\ (j \in 1..m \/ j = m + 1)
        BY <3>3, <3>7
      <4>2. CASE j \in 1..m
        BY <3>4, <3>6, <3>7, <4>1, <4>2
      <4>3. CASE j = m + 1
        <5>1. FirstPlace(s, g[k][j]) = k /\ FirstPlace(s, g[k][i]) \in 1..k - 1
          BY <3>2, <3>4, <3>5, <4>1, <4>3
        <5> QED
          BY <2>1, <5>1
      <4> QED
        BY <4>1, <4>2, <4>3
    <3>8. ASSUME NEW i \in 1..m + 1 PROVE FirstPlace(s, g[k][i]) \in 1..k
      <4>1. i \in 1..m \/ i = m + 1
        BY <3>3
      <4>2. CASE i \in 1..m
        <5>1. FirstPlace(s, g[k][i]) \in 1..k - 1
          BY <3>4, <3>5, <4>2
        <5> QED
          BY <2>1, <5>1
      <4>3. CASE i = m + 1
        BY <2>1, <3>2, <3>4, <4>3
      <4> QED
        BY <4>1, <4>2, <4>3
    <3>9. InOrderOf(s, g[k])
      BY <3>4, <3>7 DEF InOrderOf
    <3> QED
      BY <2>1, <3>4, <3>8, <3>9
  <2> HIDE DEF Good
  <2> QED
    BY <1>2, <2>3, <2>4
<1>5. n \in S
  <2>1. \A k \in 0..n : k \in S
    <3> HIDE DEF S
    <3> QED
      BY <1>1, <1>3, <1>4, LoopInvariant
  <2> QED
    BY <1>1, <2>1
<1> QED
  BY <1>2, <1>5 DEF t

-----------------------------------------------------------------------------
(* Chunks *)

\* The first element of the chunk of goroutine w, and the one after its last,
\* when k goroutines divide n elements.
First(w, n, k) == w * Chunk(n, k)
After(w, n, k) ==
  LET end == (w + 1) * Chunk(n, k) IN IF end > n THEN n ELSE end

\* A chunk is not empty, and k of them reach the end.
LEMMA ChunkFacts ==
  ASSUME NEW n \in Nat \ {0}, NEW k \in Nat \ {0}
  PROVE  Chunk(n, k) \in Nat \ {0} /\ n <= k * Chunk(n, k)
<1> DEFINE c == (n + k - 1) \div k
<1>1. c \in Int /\ k * c <= n + k - 1 /\ n + k - 1 < k * c + k
  <2> DEFINE a == n + k - 1
  <2>1. a \in Int /\ c = a \div k
    OBVIOUS
  <2> HIDE DEF a, c
  <2>2. c \in Int /\ k * c <= a /\ a < k * c + k
    BY <2>1
  <2> QED
    BY <2>2 DEF a
<1> HIDE DEF c
<1>2. n <= k * c
  <2> DEFINE d == k * c
  <2>1. d \in Int
    BY <1>1
  <2> HIDE DEF d
  <2>2. n + k - 1 < d + k
    BY <1>1 DEF d
  <2>3. n <= d
    BY <2>1, <2>2
  <2> QED
    BY <2>3 DEF d
<1>3. c > 0
  <2> SUFFICES ASSUME c <= 0 PROVE FALSE
    BY <1>1
  <2>1. k * c <= 0
    BY <1>1
  <2> DEFINE d == k * c
  <2>2. d \in Int /\ d <= 0 /\ n <= d
    BY <1>1, <1>2, <2>1
  <2> HIDE DEF d
  <2> QED
    BY <2>2
<1> QED
  BY <1>1, <1>2, <1>3 DEF Chunk, c

\* Every id of a batch, and every shard of a count, is in the chunk of exactly one
\* goroutine: none is forgotten at the end and none is counted twice
\* (search.go:67-74, shard.go:85-94).
THEOREM EveryElementHasOneWorker ==
  \A n \in Nat \ {0}, k \in Nat \ {0} : \A e \in 0..n - 1 :
    \E w \in 0..k - 1 :
      /\ First(w, n, k) <= e /\ e < After(w, n, k)
      /\ \A v \in 0..k - 1 : (First(v, n, k) <= e /\ e < After(v, n, k)) => v = w
<1> SUFFICES ASSUME NEW n \in Nat \ {0}, NEW k \in Nat \ {0}, NEW e \in 0..n - 1
             PROVE  \E w \in 0..k - 1 :
                      /\ First(w, n, k) <= e /\ e < After(w, n, k)
                      /\ \A v \in 0..k - 1 : (First(v, n, k) <= e /\ e < After(v, n, k)) => v = w
  OBVIOUS
<1> DEFINE c == Chunk(n, k)
           w == e \div c
<1>1. c \in Nat \ {0} /\ n <= k * c
  BY ChunkFacts
<1> HIDE DEF c
<1>2. w \in Int /\ w >= 0 /\ c * w <= e /\ e < c * w + c
  BY <1>1
<1> HIDE DEF w
<1>3. w * c = c * w /\ (w + 1) * c = c * w + c /\ w * c \in Int /\ k * c \in Int
  BY <1>1, <1>2
<1>4. w \in 0..k - 1
  <2> SUFFICES ASSUME k <= w PROVE FALSE
    BY <1>2
  <2>1. k * c <= w * c
    BY <1>1, <1>2
  <2> DEFINE a == k * c
             b == w * c
  <2>2. a \in Int /\ b \in Int /\ n <= a /\ a <= b /\ b <= e
    BY <1>1, <1>2, <1>3, <2>1
  <2> HIDE DEF a, b
  <2> QED
    BY <2>2
<1>5. First(w, n, k) <= e /\ e < After(w, n, k)
  BY <1>2, <1>3 DEF First, After, c
<1>6. ASSUME NEW v \in 0..k - 1, First(v, n, k) <= e, e < After(v, n, k) PROVE v = w
  <2>1. v \in Int /\ v * c <= e /\ e < (v + 1) * c /\ v * c \in Int /\ (v + 1) * c \in Int
    BY <1>1, <1>6 DEF First, After, c
  <2>2. ASSUME v < w PROVE FALSE
    <3>1. (v + 1) * c <= w * c
      BY <1>1, <1>2, <2>1, <2>2
    <3> DEFINE a == (v + 1) * c
               b == w * c
    <3>2. a \in Int /\ b \in Int /\ a <= b /\ b <= e /\ e < a
      BY <1>2, <1>3, <2>1, <3>1
    <3> HIDE DEF a, b
    <3> QED
      BY <3>2
  <2>3. ASSUME w < v PROVE FALSE
    <3>1. (w + 1) * c <= v * c
      BY <1>1, <1>2, <2>1, <2>3
    <3> DEFINE a == (w + 1) * c
               b == v * c
    <3>2. a \in Int /\ b \in Int /\ a <= b
      BY <1>1, <1>2, <2>1, <3>1
    <3>3. b <= e
      BY <2>1
    <3>4. e < a
      <4> DEFINE d == c * w
      <4>1. e < d + c /\ a = d + c
        BY <1>2, <1>3
      <4> QED
        BY <4>1
    <3> HIDE DEF a, b
    <3> QED
      BY <3>2, <3>3, <3>4
  <2> QED
    BY <1>2, <2>1, <2>2, <2>3
<1> QED
  BY <1>4, <1>5, <1>6

\* These are the chunks of the goroutines: each starts at the first element of its
\* own and ends after the last.
LEMMA StartsAtFirst ==
  ASSUME NEW n, NEW k, NEW z, Fork(n, k, z), NEW w \in Worker, pc'[w] = "run"
  PROVE  at'[w] = First(w, n, k)
  BY DEF Fork, First

LEMMA EndsAfterLast == \A w \in Worker : Hi(w) = After(w, Size, workers)
  BY DEF Hi, After

-----------------------------------------------------------------------------
(* The mutex *)

\* What the mutex is for: between its load and its store a goroutine's copy of the
\* total is the total, so no addition is lost (shard.go:102-104).
NoLostUpdate == \A w \in Worker : pc[w] = "store" => loaded[w] = total

\* Goroutines work during a call only, and the holder of the mutex is the one that
\* adds.
MutexInv ==
  /\ pc \in [Worker -> {"off", "run", "add", "store", "done"}]
  /\ DOMAIN loaded = Worker
  /\ holder \in Worker \cup {Nobody}
  /\ phase \notin {"search", "count"} => \A w \in Worker : pc[w] \in {"off", "done"}
  /\ \A w \in Worker : pc[w] \in {"add", "store"} <=> holder = w
  /\ NoLostUpdate

LEMMA NobodyIsNoWorker == Nobody \notin Worker
  BY DEF Nobody, Worker

LEMMA InitMutex == Init => MutexInv
  BY NobodyIsNoWorker DEF Init, MutexInv, NoLostUpdate

\* A step that moves no goroutine into or out of the addition, and neither the
\* mutex nor the total.
LEMMA OutsideAddition ==
  ASSUME MutexInv, NEW w \in Worker, NEW s \in {"run", "done"}, pc[w] = "run",
         pc' = [pc EXCEPT ![w] = s], phase \in {"search", "count"},
         UNCHANGED <<phase, holder, loaded, total>>
  PROVE  MutexInv'
  BY DEF MutexInv, NoLostUpdate

LEMMA StepMutex == MutexInv /\ [Next]_vars => MutexInv'
<1> SUFFICES ASSUME MutexInv, [Next]_vars PROVE MutexInv'
  OBVIOUS
<1> USE NobodyIsNoWorker
<1>1. ASSUME NEW j \in Searches, NEW p \in Procs, Search(j, p) PROVE MutexInv'
  <2>1. CASE j.batch = <<>> \/ j.shard = <<>>
    BY <1>1, <2>1 DEF Search, MutexInv, NoLostUpdate
  <2>2. CASE j.batch # <<>> /\ j.shard # <<>>
    <3>1. pc' \in [Worker -> {"run", "off"}]
      BY <1>1, <2>2 DEF Search, Fork
    <3>2. phase = "idle" /\ phase' = "search" /\ UNCHANGED <<loaded, holder>>
      BY <1>1, <2>2 DEF Search
    <3> QED
      BY <3>1, <3>2 DEF MutexInv, NoLostUpdate
  <2> QED
    BY <2>1, <2>2
<1>2. ASSUME NEW c \in Counts, NEW p \in Procs, Count(c, p) PROVE MutexInv'
  <2>1. phase = "idle" /\ UNCHANGED <<loaded, holder>>
    BY <1>2 DEF Count
  <2>2. CASE UNCHANGED pc /\ phase' \in {"panic", "returned"}
    BY <2>1, <2>2 DEF MutexInv, NoLostUpdate
  <2>3. CASE phase' = "count" /\ pc' \in [Worker -> {"run", "off"}]
    BY <2>1, <2>3 DEF MutexInv, NoLostUpdate
  <2> QED
    BY <1>2, <2>2, <2>3 DEF Count, Fork
<1>3. ASSUME NEW b \in Bitsets, Kernel(b) PROVE MutexInv'
  BY <1>3 DEF Kernel, MutexInv, NoLostUpdate
<1>4. ASSUME NEW t \in Tables, LookUp(t) PROVE MutexInv'
  <2>1. phase = "idle" /\ phase' \in {"panic", "returned"}
    BY <1>4 DEF LookUp
  <2>2. UNCHANGED <<pc, loaded, holder, total>>
    BY <1>4 DEF LookUp
  <2> QED
    BY <2>1, <2>2 DEF MutexInv, NoLostUpdate
<1>5. ASSUME NEW w \in Worker, Step(w) PROVE MutexInv'
  <2>1. CASE Look(w) \/ CountShard(w)
    <3>1. UNCHANGED <<phase, pc, loaded, holder, total>>
      BY <2>1 DEF Look, CountShard
    <3> QED
      BY <3>1 DEF MutexInv, NoLostUpdate
  <2>2. CASE Found(w)
    <3>1. pc[w] = "run" /\ pc' = [pc EXCEPT ![w] = "done"] /\ phase \in {"search", "count"}
      BY <2>2 DEF Found
    <3>2. UNCHANGED <<phase, holder, loaded, total>>
      BY <2>2 DEF Found
    <3> QED
      BY <3>1, <3>2, OutsideAddition
  <2>3. CASE Lock(w)
    BY <2>3 DEF Lock, MutexInv, NoLostUpdate
  <2>4. CASE LoadTotal(w)
    <3>1. /\ pc[w] = "add" /\ loaded' = [loaded EXCEPT ![w] = total]
          /\ pc' = [pc EXCEPT ![w] = "store"] /\ UNCHANGED <<phase, holder, total>>
      BY <2>4 DEF LoadTotal
    <3> QED
      BY <3>1 DEF MutexInv, NoLostUpdate
  <2>5. CASE StoreTotal(w)
    <3>1. /\ pc[w] = "store" /\ holder' = Nobody
          /\ pc' = [pc EXCEPT ![w] = "done"] /\ UNCHANGED <<phase, loaded>>
      BY <2>5 DEF StoreTotal
    <3>2. \A v \in Worker : v # w => pc[v] \notin {"add", "store"}
      BY <3>1 DEF MutexInv
    <3> QED
      BY <3>1, <3>2 DEF MutexInv, NoLostUpdate
  <2> QED
    BY <1>5, <2>1, <2>2, <2>3, <2>4, <2>5 DEF Step
<1>6. CASE Wait
  <2>1. (\A w \in Worker : pc[w] \in {"off", "done"}) /\ UNCHANGED <<pc, loaded, holder, total>>
    BY <1>6 DEF Wait
  <2> QED
    BY <2>1 DEF MutexInv, NoLostUpdate
<1>7. CASE Again
  <2>1. /\ phase = "returned" /\ UNCHANGED holder
        /\ pc' = [w \in Worker |-> "off"] /\ loaded' = [w \in Worker |-> 0]
    BY <1>7 DEF Again
  <2> QED
    BY <2>1 DEF MutexInv, NoLostUpdate
<1>8. CASE UNCHANGED vars
  BY <1>8 DEF vars, MutexInv, NoLostUpdate
<1> QED
  BY <1>1, <1>2, <1>3, <1>4, <1>5, <1>6, <1>7, <1>8 DEF Next

\* No goroutine's share of a count is overwritten by another's.
THEOREM NoAdditionIsLost == Spec => []NoLostUpdate
<1>1. MutexInv => NoLostUpdate
  BY DEF MutexInv
<1> QED
  BY InitMutex, StepMutex, <1>1, PTL DEF Spec

-----------------------------------------------------------------------------
(* Searches *)

LEMMA MostProcs == MaxProcs \in Nat \ {0} /\ \A p \in Procs : p <= MaxProcs
  BY EnginesAssumption DEF MaxProcs

LEMMA SearchJobs ==
  ASSUME NEW j \in Searches
  PROVE  /\ j.batch \in Seq(Nat) /\ j.shard \in Seq(Nat) /\ Len(j.batch) \in Nat
         /\ (j.batch = <<>> <=> Len(j.batch) = 0)
         /\ DOMAIN j = {"batch", "shard"}
<1>1. j \in [batch : Seq(Id), shard : Seq(Id)]
  BY EnginesAssumption
<1>2. Seq(Id) \subseteq Seq(Nat)
  BY EnginesAssumption DEF Id
<1>3. j.batch \in Seq(Nat) /\ j.shard \in Seq(Nat) /\ DOMAIN j = {"batch", "shard"}
  BY <1>1, <1>2
<1> QED
  BY <1>3, LenProperties, EmptySeq

\* Where a chunk is.
LEMMA ChunkBounds ==
  ASSUME NEW n \in Nat \ {0}, NEW k \in Nat \ {0}, NEW w \in Nat
  PROVE  /\ First(w, n, k) \in Nat /\ After(w, n, k) \in Nat /\ After(w, n, k) <= n
         /\ First(w, n, k) < n => First(w, n, k) < After(w, n, k)
         /\ First(w, n, k) >= n => After(w, n, k) = n
         /\ After(w, n, k) = n \/ After(w, n, k) = First(w + 1, n, k)
         /\ First(k, n, k) >= n /\ First(0, n, k) = 0
<1> DEFINE c == Chunk(n, k)
<1>1. c \in Nat \ {0} /\ n <= k * c
  BY ChunkFacts
<1> HIDE DEF c
<1> DEFINE a == w * c
           b == (w + 1) * c
<1>2. a \in Nat /\ b \in Nat /\ b = a + c
  BY <1>1
<1>3. First(w, n, k) = a /\ After(w, n, k) = (IF b > n THEN n ELSE b) /\ First(w + 1, n, k) = b
  BY DEF First, After, c
<1>4. First(k, n, k) = k * c /\ First(0, n, k) = 0
  BY <1>1 DEF First, c
<1> HIDE DEF a, b
<1> QED
  BY <1>1, <1>2, <1>3, <1>4

\* What the first ids of the batch give, by their number.
Hits(j) == Kept(j.batch, Elems(j.shard))

\* Goroutine w has looked for the ids from the first of its chunk to the one it is
\* at: together with the hits of the ids before its chunk, what it found are the
\* hits of the ids up to there.
Searched(w) ==
  LET lo == First(w, Len(job.batch), workers)
      hi == After(w, Len(job.batch), workers)
  IN  /\ pc[w] \in {"off", "run", "done"}
      /\ pc[w] # "off" <=> w < workers /\ lo < Len(job.batch)
      /\ pc[w] = "run" => /\ at[w] \in lo..hi /\ local[w] \in Seq(Nat)
                          /\ Hits(job)[lo] \o local[w] = Hits(job)[at[w]]
      /\ pc[w] = "done" => /\ results[w] \in Seq(Nat)
                           /\ Hits(job)[lo] \o results[w] = Hits(job)[hi]

SearchAnswered == answer = Unique(Hits(job)[Len(job.batch)])

SearchInv ==
  /\ DOMAIN at = Worker /\ DOMAIN local = Worker /\ DOMAIN results = Worker
  /\ DOMAIN pc = Worker
  /\ phase = "idle" => \A w \in Worker : pc[w] = "off"
  /\ phase \in {"idle", "search"} => \A w \in Worker : pc[w] # "done" => results[w] = <<>>
  /\ phase = "search" => /\ job \in Searches /\ job.batch # <<>> /\ workers \in 1..MaxProcs
                         /\ \A w \in Worker : Searched(w)
  /\ phase = "count" => job \in Counts
  /\ IsSearch => job \in Searches /\ SearchAnswered

LEMMA InitSearch == Init => SearchInv
  BY DEF Init, SearchInv, IsSearch, NoJob

\* The hits of one id more.
LEMMA OneMoreHit ==
  ASSUME NEW j \in Searches, NEW i \in 0..Len(j.batch) - 1
  PROVE  /\ Hits(j)[i] \in Seq(Nat) /\ j.batch[i + 1] \in Nat
         /\ Hits(j)[i + 1] = IF j.batch[i + 1] \in Elems(j.shard)
                             THEN Append(Hits(j)[i], j.batch[i + 1]) ELSE Hits(j)[i]
<1> DEFINE s == j.batch
           A == Elems(j.shard)
           n == Len(s)
<1>1. s \in Seq(Nat) /\ n \in Nat
  BY SearchJobs
<1> HIDE DEF s, A
<1>2. /\ Kept(s, A) \in [0..n -> Seq(Nat)]
      /\ \A k \in 1..n : Kept(s, A)[k] = IF s[k] \in A THEN Append(Kept(s, A)[k - 1], s[k])
                                         ELSE Kept(s, A)[k - 1]
  BY <1>1, KeptEquation
<1>3. i \in 0..n /\ i + 1 \in 1..n /\ (i + 1) - 1 = i
  BY <1>1 DEF s
<1>4. s[i + 1] \in Nat
  BY <1>1, <1>3, ElementOfSeq
<1> HIDE DEF n
<1> QED
  BY <1>2, <1>3, <1>4 DEF Hits, s, A

LEMMA NoHitsAtFirst ==
  ASSUME NEW j \in Searches
  PROVE  /\ Hits(j) \in [0..Len(j.batch) -> Seq(Nat)] /\ Hits(j)[0] = <<>>
         /\ j.shard = <<>> => Hits(j)[Len(j.batch)] = <<>>
<1> DEFINE s == j.batch
           A == Elems(j.shard)
<1>1. s \in Seq(Nat) /\ j.shard \in Seq(Nat) /\ Len(s) \in Nat
  BY SearchJobs
<1>2. j.shard = <<>> => A = {}
  BY <1>1, ElemsFacts
<1> HIDE DEF s, A
<1>3. Kept(s, A) \in [0..Len(s) -> Seq(Nat)] /\ Kept(s, A)[0] = <<>>
  BY <1>1, KeptEquation
<1>4. Elems(Kept(s, A)[Len(s)]) = {s[i] : i \in 1..Len(s)} \cap A
  <2>1. Len(s) \in 0..Len(s)
    BY <1>1
  <2> QED
    BY <1>1, <2>1, HitsOfPrefix
<1>5. ASSUME A = {} PROVE Kept(s, A)[Len(s)] = <<>>
  <2>1. Kept(s, A)[Len(s)] \in Seq(Nat) /\ Elems(Kept(s, A)[Len(s)]) = {}
    BY <1>1, <1>3, <1>4, <1>5
  <2> QED
    BY <2>1, ElemsFacts
<1> QED
  BY <1>2, <1>3, <1>5 DEF Hits, s, A

\* The goroutines' results, one after the other, are the hits of the whole batch.
LEMMA ResultsAreHits ==
  ASSUME SearchInv, phase = "search", \A w \in Worker : pc[w] \in {"off", "done"}
  PROVE  MergeUnique([k \in 1..workers |-> results[k - 1]]) = Unique(Hits(job)[Len(job.batch)])
<1> DEFINE n == Len(job.batch)
           H == Hits(job)
           parts == [k \in 1..workers |-> results[k - 1]]
           upto(i) == IF First(i, n, workers) < n THEN First(i, n, workers) ELSE n
<1>1. /\ job \in Searches /\ workers \in 1..MaxProcs /\ n \in Nat \ {0} /\ workers \in Nat \ {0}
      /\ \A w \in Worker : Searched(w) /\ (pc[w] # "done" => results[w] = <<>>)
  <2>1. job \in Searches /\ job.batch # <<>>
    BY DEF SearchInv
  <2> QED
    BY <2>1, SearchJobs, MostProcs DEF SearchInv
<1>2. H \in [0..n -> Seq(Nat)] /\ H[0] = <<>>
  BY <1>1, NoHitsAtFirst
<1>3. \A k \in 1..workers : k - 1 \in Worker /\ k - 1 \in Nat
  BY <1>1, MostProcs DEF Worker
<1>4. \A k \in 1..workers : results[k - 1] \in Seq(Nat)
  <2>1. ASSUME NEW w \in Worker PROVE results[w] \in Seq(Nat)
    <3>1. CASE pc[w] = "done"
      BY <1>1, <3>1 DEF Searched
    <3>2. CASE pc[w] # "done"
      <4>1. results[w] = <<>> /\ <<>> \in Seq(Nat)
        BY <1>1, <3>2
      <4> QED
        BY <4>1
    <3> QED
      BY <3>1, <3>2
  <2> QED
    BY <1>3, <2>1
<1>5. parts \in Seq(Seq(Nat)) /\ Len(parts) = workers
  BY <1>1, <1>4
<1>6. PICK c \in [0..workers -> Seq(Nat)] :
        /\ Concat(parts) = c[workers]
        /\ c[0] = <<>>
        /\ \A i \in 1..workers : c[i] = c[i - 1] \o results[i - 1]
  <2>1. PICK c \in [0..workers -> Seq(Nat)] :
          /\ Concat(parts) = c[workers]
          /\ c[0] = <<>>
          /\ \A i \in 1..workers : c[i] = c[i - 1] \o parts[i]
    <3> HIDE DEF parts
    <3>1. PICK c : Joined(Nat, parts, c)
      BY <1>5, ConcatJoins
    <3> QED
      BY <1>5, <3>1 DEF Joined
  <2>2. \A i \in 1..workers : parts[i] = results[i - 1]
    OBVIOUS
  <2> HIDE DEF parts
  <2> QED
    BY <2>1, <2>2
<1> HIDE DEF H, parts, n
<1> DEFINE S == {i \in 0..workers : c[i] = H[upto(i)]}
<1>7. 0 \in S
  <2>1. First(0, n, workers) = 0
    BY <1>1, ChunkBounds
  <2> QED
    <3>1. upto(0) = 0 /\ 0 \in 0..workers
      BY <1>1, <2>1
    <3> HIDE DEF upto
    <3> QED
      BY <1>2, <1>6, <3>1
<1>8. ASSUME NEW i \in 1..workers, i - 1 \in S PROVE i \in S
  <2> DEFINE w == i - 1
             lo == First(w, n, workers)
             hi == After(w, n, workers)
  <2>1. /\ w \in Worker /\ w \in Nat /\ w < workers /\ w + 1 = i /\ i \in 0..workers
        /\ c[w] = H[upto(w)] /\ c[i] = c[w] \o results[w]
    <3>1. w \in Worker /\ w \in Nat /\ w < workers /\ w + 1 = i /\ i \in 0..workers
      BY <1>1, <1>3
    <3>2. c[w] = H[upto(w)] /\ c[i] = c[w] \o results[w]
      <4> HIDE DEF upto
      <4> QED
        BY <1>6, <1>8
    <3> QED
      BY <3>1, <3>2
  <2> HIDE DEF w
  <2>2. /\ lo \in Nat /\ hi \in Nat /\ hi <= n /\ First(i, n, workers) \in Nat
        /\ lo >= n => hi = n
        /\ hi = n \/ hi = First(i, n, workers)
    <3>1. n \in Nat \ {0} /\ workers \in Nat \ {0} /\ w \in Nat /\ i \in Nat /\ w + 1 = i
      BY <1>1, <2>1
    <3>2. First(i, n, workers) \in Nat
      BY <3>1, ChunkBounds
    <3>3. lo \in Nat /\ hi \in Nat /\ hi <= n
      BY <3>1, ChunkBounds
    <3>4. lo >= n => hi = n
      BY <3>1, ChunkBounds
    <3>5. hi = n \/ hi = First(w + 1, n, workers)
      BY <3>1, ChunkBounds
    <3> HIDE DEF lo, hi
    <3> QED
      BY <3>1, <3>2, <3>3, <3>4, <3>5
  <2>3. First(i, n, workers) >= First(w, n, workers)
    <3> DEFINE d == Chunk(n, workers)
    <3>1. d \in Nat
      BY <1>1, ChunkFacts
    <3> HIDE DEF d
    <3>2. (w + 1) * d >= w * d
      BY <2>1, <3>1
    <3> QED
      BY <2>1, <3>2 DEF First, d
  <2>4. hi = upto(i)
    <3>1. After(w, n, workers) = IF First(i, n, workers) > n THEN n ELSE First(i, n, workers)
      BY <2>1 DEF After, First
    <3> QED
      BY <1>1, <2>2, <3>1
  <2>5. CASE lo < n
    <3>1. pc[w] = "done" /\ H[lo] \o results[w] = H[hi]
      BY <1>1, <2>1, <2>5 DEF Searched, H, n
    <3>2. upto(w) = lo
      BY <2>5
    <3> QED
      BY <2>1, <2>4, <3>1, <3>2
  <2>6. CASE ~(lo < n)
    <3>1. results[w] = <<>>
      <4>1. pc[w] = "off"
        BY <1>1, <2>1, <2>6 DEF Searched, n
      <4> QED
        BY <1>1, <2>1, <4>1
    <3>2. upto(w) = n /\ upto(i) = n
      BY <1>1, <2>2, <2>3, <2>6
    <3>3. c[w] \in Seq(Nat)
      <4>1. w \in 0..workers
        BY <1>1, <2>1
      <4> QED
        BY <1>6, <4>1
    <3>4. c[i] = c[w]
      BY <2>1, <3>1, <3>3
    <3> HIDE DEF upto
    <3> QED
      BY <2>1, <3>2, <3>4
  <2> QED
    BY <2>5, <2>6
<1>9. c[workers] = H[n]
  <2>1. \A i \in 0..workers : i \in S
    <3> HIDE DEF S
    <3> QED
      BY <1>1, <1>7, <1>8, LoopInvariant
  <2>2. workers \in 0..workers /\ First(workers, n, workers) \in Nat /\ First(workers, n, workers) >= n
    <3>1. n \in Nat \ {0} /\ workers \in Nat \ {0} /\ workers \in Nat /\ workers \in 0..workers
      BY <1>1
    <3>2. First(workers, n, workers) \in Nat
      BY <3>1, ChunkBounds
    <3>3. First(workers, n, workers) >= n
      BY <3>1, ChunkBounds
    <3> QED
      BY <3>1, <3>2, <3>3
  <2> QED
    BY <1>1, <2>1, <2>2
<1> QED
  BY <1>6, <1>9 DEF MergeUnique, H, n, parts

\* A search begins: no goroutine has looked for an id yet.
LEMMA SearchStarts ==
  ASSUME SearchInv, NEW j \in Searches, NEW p \in Procs, Search(j, p),
         j.batch # <<>>, j.shard # <<>>
  PROVE  SearchInv'
<1> DEFINE n == Len(j.batch)
           k == Smaller(p, n)
<1>1. /\ phase = "idle" /\ phase' = "search" /\ job' = j /\ workers' = k
      /\ pc' = [w \in Worker |-> IF w < k /\ First(w, n, k) < n THEN "run" ELSE "off"]
      /\ at' = [w \in Worker |-> IF w < k /\ First(w, n, k) < n THEN First(w, n, k) ELSE 0]
      /\ local' = [w \in Worker |-> <<>>]
      /\ UNCHANGED results
  BY DEF Search, Fork, First
<1>2. n \in Nat \ {0} /\ k \in Nat \ {0} /\ k <= MaxProcs
  <2>1. n \in Nat \ {0}
    BY SearchJobs
  <2>2. p \in Nat \ {0} /\ p <= MaxProcs /\ MaxProcs \in Nat
    BY MostProcs, EnginesAssumption
  <2> HIDE DEF n
  <2> QED
    BY <2>1, <2>2 DEF Smaller
<1> HIDE DEF k
<1>3. ASSUME NEW w \in Worker PROVE Searched(w)'
  <2> DEFINE lo == First(w, n, k)
             hi == After(w, n, k)
             go == w < k /\ lo < n
  <2>1. w \in Nat
    BY MostProcs DEF Worker
  <2>2. lo \in Nat /\ hi \in Nat
    BY <1>2, <2>1, ChunkBounds
  <2>3. lo < n => lo < hi
    BY <1>2, <2>1, ChunkBounds
  <2>4. /\ pc'[w] = (IF go THEN "run" ELSE "off")
        /\ at'[w] = (IF go THEN lo ELSE 0) /\ local'[w] = <<>>
    BY <1>1
  <2>5. lo < n => Hits(j)[lo] \o <<>> = Hits(j)[lo]
    <3>1. Hits(j) \in [0..n -> Seq(Nat)]
      BY NoHitsAtFirst
    <3> HIDE DEF n, lo
    <3>2. lo < n => lo \in 0..n
      BY <1>2, <2>2
    <3>3. lo < n => Hits(j)[lo] \in Seq(Nat)
      BY <3>1, <3>2
    <3> QED
      BY <3>3
  <2>6. Searched(w)' <=>
          /\ pc'[w] \in {"off", "run", "done"}
          /\ pc'[w] # "off" <=> go
          /\ pc'[w] = "run" => /\ at'[w] \in lo..hi /\ local'[w] \in Seq(Nat)
                               /\ Hits(j)[lo] \o local'[w] = Hits(j)[at'[w]]
          /\ pc'[w] = "done" => /\ results'[w] \in Seq(Nat)
                                /\ Hits(j)[lo] \o results'[w] = Hits(j)[hi]
    BY <1>1 DEF Searched, Hits
  <2>7. <<>> \in Seq(Nat)
    OBVIOUS
  <2> HIDE DEF lo, hi
  <2> QED
    BY <2>2, <2>3, <2>4, <2>5, <2>6, <2>7 DEF go
<1>4. k \in 1..MaxProcs
  BY <1>2, MostProcs
<1> QED
  BY <1>1, <1>3, <1>4 DEF SearchInv, IsSearch

\* One goroutine looks for its next id.
LEMMA LookSearches ==
  ASSUME SearchInv, NEW w \in Worker, Look(w)
  PROVE  SearchInv'
<1> DEFINE n == Len(job.batch)
           q == job.batch[at[w] + 1]
           lo == First(w, n, workers)
           hi == After(w, n, workers)
<1>1. /\ phase = "search" /\ pc[w] = "run" /\ at[w] < hi
      /\ local' = [local EXCEPT ![w] = IF q \in Elems(job.shard) THEN Append(@, q) ELSE @]
      /\ at' = [at EXCEPT ![w] = @ + 1]
      /\ UNCHANGED <<phase, job, workers, pc, results, answer>>
  BY EndsAfterLast DEF Look, Size
<1>2. /\ job \in Searches /\ n \in Nat \ {0} /\ workers \in Nat \ {0}
      /\ at[w] \in lo..hi /\ local[w] \in Seq(Nat)
      /\ Hits(job)[lo] \o local[w] = Hits(job)[at[w]]
  <2>1. job \in Searches /\ job.batch # <<>> /\ workers \in 1..MaxProcs /\ Searched(w)
    BY <1>1 DEF SearchInv
  <2>2. n \in Nat \ {0} /\ workers \in Nat \ {0}
    BY <2>1, SearchJobs, MostProcs
  <2> QED
    BY <1>1, <2>1, <2>2 DEF Searched
<1>3. w \in Nat /\ lo \in Nat /\ hi \in Nat /\ hi <= n
  <2>1. w \in Nat
    BY MostProcs DEF Worker
  <2> QED
    BY <1>2, <2>1, ChunkBounds
<1> HIDE DEF n, lo, hi
<1>4. at[w] \in 0..n - 1 /\ at[w] + 1 \in lo..hi /\ lo \in 0..n
  BY <1>1, <1>2, <1>3
<1>5. /\ Hits(job)[at[w]] \in Seq(Nat) /\ q \in Nat
      /\ Hits(job)[at[w] + 1] = IF q \in Elems(job.shard) THEN Append(Hits(job)[at[w]], q)
                                ELSE Hits(job)[at[w]]
  BY <1>2, <1>4, OneMoreHit DEF n
<1>6. Hits(job)[lo] \in Seq(Nat)
  BY <1>2, <1>4, NoHitsAtFirst DEF n
<1> HIDE DEF q
<1>7. local'[w] \in Seq(Nat) /\ Hits(job)[lo] \o local'[w] = Hits(job)[at[w] + 1]
  <2> DEFINE a == Hits(job)[lo]
             l == local[w]
  <2>1. a \in Seq(Nat) /\ l \in Seq(Nat) /\ a \o l = Hits(job)[at[w]]
    BY <1>2, <1>6
  <2>2. local'[w] = IF q \in Elems(job.shard) THEN Append(l, q) ELSE l
    BY <1>1 DEF SearchInv
  <2> HIDE DEF a, l
  <2>3. a \o Append(l, q) = Append(a \o l, q) /\ Append(l, q) \in Seq(Nat)
    BY <1>5, <2>1, AppendLast
  <2>4. CASE q \in Elems(job.shard)
    BY <1>5, <2>1, <2>2, <2>3, <2>4 DEF a
  <2>5. CASE q \notin Elems(job.shard)
    BY <1>5, <2>1, <2>2, <2>5 DEF a
  <2> QED
    BY <2>4, <2>5
<1>8. at'[w] = at[w] + 1 /\ \A v \in Worker : v # w => at'[v] = at[v] /\ local'[v] = local[v]
  BY <1>1 DEF SearchInv
<1>9. ASSUME NEW v \in Worker PROVE Searched(v)'
  <2>1. Searched(v)
    BY <1>1 DEF SearchInv
  <2>2. CASE v = w
    BY <1>1, <1>4, <1>7, <1>8, <2>1, <2>2 DEF Searched, Hits, lo, hi, n
  <2>3. CASE v # w
    BY <1>1, <1>8, <2>1, <2>3 DEF Searched, Hits
  <2> QED
    BY <2>2, <2>3
<1> QED
  BY <1>1, <1>9 DEF SearchInv, IsSearch

LEMMA FoundSearches ==
  ASSUME SearchInv, NEW w \in Worker, Found(w)
  PROVE  SearchInv'
<1>1. /\ phase = "search" /\ pc[w] = "run" /\ at[w] = After(w, Len(job.batch), workers)
      /\ results' = [results EXCEPT ![w] = local[w]]
      /\ pc' = [pc EXCEPT ![w] = "done"]
      /\ UNCHANGED <<phase, job, workers, at, local, answer>>
  BY EndsAfterLast DEF Found, Size
<1>2. /\ results'[w] = local[w] /\ pc'[w] = "done"
      /\ \A v \in Worker : v # w => results'[v] = results[v] /\ pc'[v] = pc[v]
  BY <1>1 DEF SearchInv
<1>3. ASSUME NEW v \in Worker PROVE Searched(v)'
  <2>1. Searched(v)
    BY <1>1 DEF SearchInv
  <2>2. CASE v = w
    BY <1>1, <1>2, <2>1, <2>2 DEF Searched, Hits
  <2>3. CASE v # w
    BY <1>1, <1>2, <2>1, <2>3 DEF Searched, Hits
  <2> QED
    BY <2>2, <2>3
<1> QED
  BY <1>1, <1>2, <1>3 DEF SearchInv, IsSearch

LEMMA StepSearch == SearchInv /\ MutexInv /\ [Next]_vars => SearchInv'
<1> SUFFICES ASSUME SearchInv, MutexInv, [Next]_vars PROVE SearchInv'
  OBVIOUS
<1>1. ASSUME NEW j \in Searches, NEW p \in Procs, Search(j, p) PROVE SearchInv'
  <2>1. CASE j.batch = <<>> \/ j.shard = <<>>
    <3>1. /\ phase' = "returned" /\ job' = j /\ answer' = <<>>
          /\ UNCHANGED <<workers, pc, at, local, results>>
      BY <1>1, <2>1 DEF Search
    <3>2. Hits(j)[Len(j.batch)] = <<>>
      BY <2>1, SearchJobs, NoHitsAtFirst
    <3>3. Unique(<<>>) = <<>>
      <4>1. <<>> \in Seq(Nat) /\ Len(<<>>) = 0
        OBVIOUS
      <4> QED
        BY <4>1, UniqueEquation
    <3>4. SearchAnswered'
      BY <3>1, <3>2, <3>3 DEF SearchAnswered, Hits
    <3> QED
      BY <3>1, <3>4 DEF SearchInv
  <2> QED
    BY <1>1, <2>1, SearchStarts
<1>2. ASSUME NEW c \in Counts, NEW p \in Procs, Count(c, p) PROVE SearchInv'
  <2>1. /\ phase' \in {"panic", "returned", "count"} /\ job' = c /\ UNCHANGED results
        /\ DOMAIN pc' = Worker /\ DOMAIN at' = Worker /\ DOMAIN local' = Worker
    BY <1>2 DEF Count, Fork, SearchInv
  <2>2. "batch" \notin DOMAIN c
    BY EnginesAssumption
  <2> QED
    BY <2>1, <2>2 DEF SearchInv, IsSearch
<1>3. ASSUME NEW b \in Bitsets, Kernel(b) PROVE SearchInv'
  <2>1. phase' = "returned" /\ job' = b /\ UNCHANGED <<workers, pc, at, local, results>>
    BY <1>3 DEF Kernel
  <2>2. "batch" \notin DOMAIN b
    BY EnginesAssumption
  <2> QED
    BY <2>1, <2>2 DEF SearchInv, IsSearch
<1>4. ASSUME NEW t \in Tables, LookUp(t) PROVE SearchInv'
  <2>1. phase' \in {"panic", "returned"} /\ job' = t /\ UNCHANGED <<workers, pc, at, local, results>>
    BY <1>4 DEF LookUp
  <2>2. "batch" \notin DOMAIN t
    BY EnginesAssumption
  <2> QED
    BY <2>1, <2>2 DEF SearchInv, IsSearch
<1>5. ASSUME NEW w \in Worker, Step(w) PROVE SearchInv'
  <2>1. CASE Look(w)
    BY <2>1, LookSearches
  <2>2. CASE Found(w)
    BY <2>2, FoundSearches
  <2>3. CASE CountShard(w) \/ Lock(w) \/ LoadTotal(w) \/ StoreTotal(w)
    <3>1. /\ UNCHANGED <<phase, job, results>> /\ DOMAIN pc' = Worker
          /\ DOMAIN at' = Worker /\ DOMAIN local' = Worker
      BY <2>3 DEF CountShard, Lock, LoadTotal, StoreTotal, SearchInv
    <3>2. phase = "count" \/ pc[w] \in {"add", "store"}
      BY <2>3 DEF CountShard, Lock, LoadTotal, StoreTotal
    <3>3. phase \notin {"idle", "search", "returned"}
      <4>1. CASE pc[w] \in {"add", "store"}
        <5>1. phase # "search"
          BY <4>1 DEF SearchInv, Searched
        <5>2. phase \in {"search", "count"}
          BY <4>1 DEF MutexInv
        <5> QED
          BY <5>1, <5>2
      <4> QED
        BY <3>2, <4>1
    <3> QED
      BY <3>1, <3>3 DEF SearchInv, IsSearch
  <2> QED
    BY <1>5, <2>1, <2>2, <2>3 DEF Step
<1>6. CASE Wait
  <2>1. /\ phase \in {"search", "count"} /\ phase' = "returned"
        /\ UNCHANGED <<job, workers, pc, at, local, results>>
        /\ \A w \in Worker : pc[w] \in {"off", "done"}
    BY <1>6 DEF Wait
  <2>2. CASE phase = "search"
    <3>1. answer' = MergeUnique([k \in 1..workers |-> results[k - 1]]) /\ job \in Searches
      BY <1>6, <2>2 DEF Wait, SearchInv
    <3>2. SearchAnswered'
      BY <2>1, <2>2, <3>1, ResultsAreHits DEF SearchAnswered, Hits
    <3> QED
      BY <2>1, <3>1, <3>2 DEF SearchInv
  <2>3. CASE phase = "count"
    <3>1. "batch" \notin DOMAIN job
      BY <2>3, EnginesAssumption DEF SearchInv
    <3> QED
      BY <2>1, <3>1 DEF SearchInv, IsSearch
  <2> QED
    BY <2>1, <2>2, <2>3
<1>7. CASE Again
  <2>1. /\ phase' = "idle" /\ pc' = [w \in Worker |-> "off"] /\ at' = [w \in Worker |-> 0]
        /\ local' = [w \in Worker |-> <<>>] /\ results' = [w \in Worker |-> <<>>]
    BY <1>7 DEF Again
  <2> QED
    BY <2>1 DEF SearchInv, IsSearch
<1>8. CASE UNCHANGED vars
  <2>1. \A w \in Worker : Searched(w)' <=> Searched(w)
    BY <1>8 DEF vars, Searched, Hits
  <2> QED
    BY <1>8, <2>1 DEF vars, SearchInv, IsSearch, SearchAnswered, Hits
<1> QED
  BY <1>1, <1>2, <1>3, <1>4, <1>5, <1>6, <1>7, <1>8 DEF Next

\* A search of any batch and shard, on any number of goroutines that run in any
\* order, returns the hits of the batch, each once, in the order of the batch, as
\* the search of the sorted shard does.
THEOREM SearchIsExact == Spec => []SearchExact
<1>1. SearchInv => SearchExact
  <2> SUFFICES ASSUME SearchInv, IsSearch PROVE SearchExact
    BY DEF SearchExact
  <2> DEFINE s == job.batch
             A == job.shard
             found == SearchSortedBatch(Sort(A), s)
             hits == Hits(job)[Len(s)]
  <2>1. job \in Searches /\ answer = Unique(hits)
    BY DEF SearchInv, SearchAnswered
  <2>2. s \in Seq(Nat) /\ A \in Seq(Nat) /\ Len(s) \in Nat
    BY <2>1, SearchJobs
  <2>3. answer = found
    BY <2>1, <2>2, SortedSearchFindsHits DEF Hits
  <2>4. InOrderOf(s, found)
    BY <2>2, HitsKeepTheOrder
  <2>5. Elems(answer) = Elems(s) \cap Elems(A)
    <3>1. Len(s) \in 0..Len(s) /\ Elems(s) = {s[i] : i \in 1..Len(s)}
      BY <2>2, ElemsFacts
    <3>2. hits \in Seq(Nat) /\ Elems(hits) = {s[i] : i \in 1..Len(s)} \cap Elems(A)
      <4> HIDE DEF s, A
      <4>1. /\ Kept(s, Elems(A))[Len(s)] \in Seq(Nat)
            /\ Elems(Kept(s, Elems(A))[Len(s)]) = {s[i] : i \in 1..Len(s)} \cap Elems(A)
        BY <2>2, <3>1, HitsOfPrefix, ZenonT(30)
      <4> QED
        BY <4>1 DEF Hits, s, A
    <3> HIDE DEF hits
    <3>3. Elems(Unique(hits)) = Elems(hits)
      <4>1. 0 \in Nat
        OBVIOUS
      <4> QED
        BY <3>2, <4>1, UniqueAppend
    <3> QED
      BY <2>1, <3>1, <3>2, <3>3
  <2>6. \A i, k \in DOMAIN answer : i < k => FirstPlace(s, answer[i]) < FirstPlace(s, answer[k])
    BY <2>3, <2>4 DEF InOrderOf
  <2> QED
    BY <2>3, <2>5, <2>6 DEF SearchExact, FirstPlace
<1> QED
  BY InitMutex, StepMutex, InitSearch, StepSearch, <1>1, PTL DEF Spec

-----------------------------------------------------------------------------
(* A count, as a function of the ids and the shards *)

LEMMA CountJobs ==
  ASSUME NEW c \in Counts
  PROVE  /\ c.a \in Seq(Nat) /\ c.b \in Seq(Nat)
         /\ c.shards \in Nat \ {0} /\ c.universe \in 0..Width - 1
         /\ Elems(c.a) \subseteq Id /\ Elems(c.b) \subseteq Id
         /\ (c.a = <<>> => Elems(c.a) = {}) /\ (c.b = <<>> => Elems(c.b) = {})
         /\ DOMAIN c = {"universe", "shards", "a", "b"}
<1>1. c \in [universe : Id, shards : Nat \ {0}, a : Seq(Id), b : Seq(Id)]
  BY EnginesAssumption
<1>2. Id \subseteq Nat /\ Seq(Id) \subseteq Seq(Nat)
  BY EnginesAssumption DEF Id
<1>3. c.a \in Seq(Id) /\ c.b \in Seq(Id) /\ c.a \in Seq(Nat) /\ c.b \in Seq(Nat)
  <2>1. c.a \in Seq(Id) /\ c.b \in Seq(Id)
    BY <1>1
  <2> QED
    BY <1>2, <2>1
<1>4. \A s \in Seq(Id) : Elems(s) \subseteq Id
  BY LenProperties, ElementOfSeq DEF Elems
<1>5. (c.a = <<>> => Elems(c.a) = {}) /\ (c.b = <<>> => Elems(c.b) = {})
  BY <1>3, ElemsFacts
<1> QED
  BY <1>1, <1>3, <1>4, <1>5 DEF Id

\* A shard has some bits of capacity for each of its ids, and none when Set would
\* divide by zero.
LEMMA ShardBitsFacts ==
  ASSUME NEW c \in Counts
  PROVE  /\ ShardBits(c) \in Nat /\ c.shards * ShardBits(c) \in Nat
         /\ c.universe + c.shards <= Width => c.shards * ShardBits(c) >= c.universe
         /\ ~DividesByZero(c) /\ ShardBits(c) = 0 => Elems(c.a) = {} /\ Elems(c.b) = {}
<1> DEFINE n == c.shards
           u == c.universe
           x == (u + n - 1) % Width
           d == x \div n
<1>1. n \in Nat \ {0} /\ u \in Nat /\ u < Width /\ Width \in Nat \ {0}
  BY CountJobs, EnginesAssumption
<1>2. x \in Nat /\ (u + n <= Width => x = u + n - 1)
  <2> DEFINE y == u + n - 1
  <2>1. y \in Nat /\ (u + n <= Width => y < Width)
    BY <1>1
  <2> HIDE DEF y
  <2>2. y % Width \in Nat /\ (y < Width => y % Width = y)
    BY <1>1, <2>1
  <2> QED
    BY <2>1, <2>2 DEF y
<1>3. ShardBits(c) = d
  BY DEF ShardBits
<1> HIDE DEF n, u, x
<1>4. d \in Nat /\ n * d <= x /\ x < n * d + n
  BY <1>1, <1>2
<1> HIDE DEF d
<1>5. n * d \in Nat
  BY <1>1, <1>4
<1>6. u + n <= Width => n * d >= u
  <2> DEFINE m == n * d
  <2>1. m \in Nat /\ x < m + n
    BY <1>4, <1>5
  <2> HIDE DEF m
  <2>2. u + n <= Width => m >= u
    BY <1>1, <1>2, <2>1
  <2> QED
    BY <2>2 DEF m
<1>7. ~DividesByZero(c) /\ ShardBits(c) = 0 => Elems(c.a) = {} /\ Elems(c.b) = {}
  BY CountJobs DEF DividesByZero
<1> QED
  BY <1>3, <1>4, <1>5, <1>6, <1>7 DEF n, u

\* The shard of an id below the capacity.
LEMMA ShardOfId ==
  ASSUME NEW c \in Counts, ShardBits(c) # 0, NEW id \in Nat
  PROVE  /\ ShardOf(c, id) \in 0..c.shards - 1 <=> id < c.shards * ShardBits(c)
         /\ ShardOf(c, id) \in 0..c.shards - 1 \/ ShardOf(c, id) = Outside
         /\ Outside \notin Nat
<1> DEFINE n == c.shards
           d == ShardBits(c)
           s == id \div d
<1>1. n \in Nat \ {0} /\ d \in Nat \ {0} /\ n * d \in Nat
  BY CountJobs, ShardBitsFacts
<1> HIDE DEF n, d
<1>2. s \in Nat /\ d * s <= id /\ id < d * s + d
  BY <1>1
<1> HIDE DEF s
<1>3. s < n <=> id < n * d
  <2>1. ASSUME s < n PROVE id < n * d
    <3>1. (s + 1) * d <= n * d
      BY <1>1, <1>2, <2>1
    <3>2. (s + 1) * d = d * s + d /\ d * s \in Nat
      BY <1>1, <1>2
    <3> DEFINE a == d * s
               b == n * d
    <3>3. a \in Nat /\ b \in Nat /\ a + d <= b /\ id < a + d
      BY <1>1, <1>2, <3>1, <3>2
    <3> HIDE DEF a, b
    <3>4. id < b
      BY <1>1, <3>3
    <3> QED
      BY <3>4 DEF b
  <2>2. ASSUME s >= n PROVE ~(id < n * d)
    <3>1. n * d <= s * d
      BY <1>1, <1>2, <2>2
    <3>2. s * d = d * s /\ d * s \in Nat
      BY <1>1, <1>2
    <3> DEFINE a == d * s
               b == n * d
    <3>3. a \in Nat /\ b \in Nat /\ b <= a /\ a <= id
      BY <1>1, <1>2, <3>1, <3>2
    <3> HIDE DEF a, b
    <3>4. ~(id < b)
      BY <1>1, <3>3
    <3> QED
      BY <3>4 DEF b
  <2> QED
    BY <1>1, <1>2, <2>1, <2>2
<1>4. ShardOf(c, id) = IF s >= n THEN Outside ELSE s
  BY DEF ShardOf, s, n, d
<1>5. s >= n \/ s \in 0..n - 1
  BY <1>1, <1>2
<1>6. Outside \notin Nat /\ Outside = -1
  BY DEF Outside
<1>7. CASE s >= n
  <2>1. ShardOf(c, id) = Outside /\ Outside \notin 0..n - 1
    BY <1>1, <1>4, <1>6, <1>7
  <2>2. ~(s < n)
    BY <1>1, <1>2, <1>7
  <2> QED
    BY <1>3, <1>6, <2>1, <2>2 DEF n, d
<1>8. CASE s \in 0..n - 1
  <2>1. ShardOf(c, id) = s
    BY <1>1, <1>2, <1>4, <1>8
  <2>2. s < n
    BY <1>1, <1>8
  <2> QED
    BY <1>3, <1>6, <1>8, <2>1, <2>2 DEF n, d
<1> QED
  BY <1>5, <1>7, <1>8

\* The ids of both sets whose shards are in S.
Shared(c, S) == {id \in Elems(c.a) \cap Elems(c.b) : ShardOf(c, id) \in S}

LEMMA SharedIsFinite ==
  ASSUME NEW c \in Counts, NEW S
  PROVE  IsFiniteSet(Shared(c, S)) /\ Cardinality(Shared(c, S)) \in Nat
<1>1. Shared(c, S) \in SUBSET (0..Width - 1)
  BY CountJobs DEF Shared, Id
<1>2. IsFiniteSet(0..Width - 1)
  BY FS_Interval, EnginesAssumption
<1>3. IsFiniteSet(Shared(c, S))
  BY <1>1, <1>2, FS_Subset
<1> QED
  BY <1>3, FS_CardinalityType

\* The shares of disjoint sets of shards add up.
LEMMA SharesAddUp ==
  ASSUME NEW c \in Counts, NEW S, NEW T, S \cap T = {}
  PROVE  Cardinality(Shared(c, S \cup T)) =
           Cardinality(Shared(c, S)) + Cardinality(Shared(c, T))
<1> DEFINE A == Shared(c, S)
           B == Shared(c, T)
<1>1. Shared(c, S \cup T) = A \cup B /\ A \cap B = {}
  BY DEF Shared
<1>2. IsFiniteSet(A) /\ IsFiniteSet(B) /\ Cardinality(A) \in Nat /\ Cardinality(B) \in Nat
  BY SharedIsFinite
<1> HIDE DEF A, B
<1>3. Cardinality(A \cup B) = Cardinality(A) + Cardinality(B) - Cardinality(A \cap B)
  BY <1>2, FS_Union
<1>4. Cardinality({}) = 0
  BY FS_EmptySet
<1>5. Cardinality(A \cap B) = 0
  BY <1>1, <1>4
<1>6. Cardinality(A \cup B) = Cardinality(A) + Cardinality(B)
  BY <1>2, <1>3, <1>5
<1> QED
  BY <1>1, <1>6 DEF A, B

LEMMA NothingShared ==
  ASSUME NEW c \in Counts
  PROVE  Cardinality(Shared(c, {})) = 0
<1>1. Shared(c, {}) = {}
  BY DEF Shared
<1> QED
  BY <1>1, FS_EmptySet

\* The bits that two shards have in common are those of the ids that both sets have
\* there.
LEMMA CountOfShard ==
  ASSUME NEW c \in Counts, NEW s \in Nat
  PROVE  CountOf(c, s) = Cardinality(Shared(c, {s}))
<1> DEFINE d == ShardBits(c)
           A == Elems(c.a)
           B == Elems(c.b)
           P == Shared(c, {s})
           Q == Bits(c, c.a, s) \cap Bits(c, c.b, s)
           f == [id \in P |-> id - s * d]
<1>1. A \subseteq Int /\ B \subseteq Int /\ s * d \in Int
  BY CountJobs, ShardBitsFacts DEF Id
<1>2. Bits(c, c.a, s) = {id - s * d : id \in {i \in A : ShardOf(c, i) = s}}
  BY DEF Bits
<1>3. Bits(c, c.b, s) = {id - s * d : id \in {i \in B : ShardOf(c, i) = s}}
  BY DEF Bits
<1>4. P = {id \in A \cap B : ShardOf(c, id) = s}
  BY DEF Shared
<1> DEFINE e == s * d
<1> HIDE DEF d, A, B, P, Q, e
<1>5. f \in Bijection(P, Q)
  <2>1. \A id \in P : id \in Int /\ e \in Int /\ f[id] = id - e
    BY <1>1, <1>4 DEF e
  <2>2. ASSUME NEW id \in P PROVE f[id] \in Q
    <3>1. id - e \in Bits(c, c.a, s)
      BY <1>2, <1>4 DEF e
    <3>2. id - e \in Bits(c, c.b, s)
      BY <1>3, <1>4 DEF e
    <3> QED
      BY <2>1, <3>1, <3>2 DEF Q
  <2>3. f \in [P -> Q]
    BY <2>2
  <2>4. \A x, y \in P : f[x] = f[y] => x = y
    BY <2>1
  <2>5. ASSUME NEW q \in Q PROVE \E id \in P : f[id] = q
    <3>1. PICK x \in A : ShardOf(c, x) = s /\ q = x - e
      BY <1>2 DEF Q, e
    <3>2. PICK y \in B : ShardOf(c, y) = s /\ q = y - e
      BY <1>3 DEF Q, e
    <3>3. x = y
      BY <1>1, <3>1, <3>2 DEF e
    <3>4. x \in P
      BY <1>4, <3>1, <3>2, <3>3
    <3> QED
      BY <2>1, <3>1, <3>4
  <2> QED
    BY <2>3, <2>4, <2>5, Fun_IsBij
<1>6. IsFiniteSet(P)
  BY SharedIsFinite DEF P
<1>7. Cardinality(Q) = Cardinality(P)
  <2>1. ExistsBijection(P, Q)
    BY <1>5 DEF ExistsBijection
  <2> QED
    BY <1>6, <2>1, FS_Bijection
<1> QED
  BY <1>7 DEF CountOf, AndPopcount, P, Q

\* The sum over all shards.
LEMMA SerialCountIsExact ==
  ASSUME NEW c \in Counts
  PROVE  SerialCount(c) = Cardinality(Shared(c, 0..c.shards - 1))
<1> DEFINE n == c.shards
           counts == [s \in 1..n |-> CountOf(c, s - 1)]
           P == [s \in 1..n |-> Shared(c, {s - 1})]
<1>1. n \in Nat \ {0}
  BY CountJobs
<1>2. ASSUME NEW s \in 1..n PROVE counts[s] = Cardinality(P[s]) /\ IsFiniteSet(P[s]) /\ counts[s] \in Nat
  <2>1. s - 1 \in Nat
    BY <1>1
  <2>2. counts[s] = CountOf(c, s - 1) /\ P[s] = Shared(c, {s - 1})
    OBVIOUS
  <2> QED
    BY <2>1, <2>2, CountOfShard, SharedIsFinite
<1>3. counts \in Seq(Nat) /\ Len(counts) = n
  <2>1. counts = [s \in 1..n |-> counts[s]]
    OBVIOUS
  <2> HIDE DEF counts, n
  <2>2. counts \in [1..n -> Nat] /\ n \in Nat
    BY <1>1, <1>2, <2>1
  <2> QED
    BY <2>2, FunctionIsSeq
<1>4. \A s, t \in 1..n : s # t => P[s] \cap P[t] = {}
  BY <1>1 DEF Shared
<1>5. UNION {P[s] : s \in 1..n} = Shared(c, 0..n - 1)
  <2>1. \A s \in 1..n : s - 1 \in 0..n - 1
    BY <1>1
  <2>2. \A s \in 0..n - 1 : s + 1 \in 1..n /\ (s + 1) - 1 = s
    BY <1>1
  <2>3. ASSUME NEW id \in Shared(c, 0..n - 1) PROVE \E s \in 1..n : id \in P[s]
    <3> DEFINE s == ShardOf(c, id) + 1
    <3>1. s \in 1..n /\ s - 1 = ShardOf(c, id)
      BY <2>2 DEF Shared
    <3>2. id \in P[s]
      BY <3>1 DEF Shared
    <3> QED
      BY <3>1, <3>2
  <2>4. ASSUME NEW s \in 1..n, NEW id \in P[s] PROVE id \in Shared(c, 0..n - 1)
    BY <2>1 DEF Shared
  <2> HIDE DEF P
  <2> QED
    BY <2>3, <2>4
<1>6. SerialCount(c) = AddUp(counts)
  BY DEF SerialCount
<1> HIDE DEF counts, P, n
<1>7. PICK f \in [0..n -> Nat] :
        AddUp(counts) = f[n] /\ f[0] = 0 /\ \A k \in 1..n : f[k] = f[k - 1] + counts[k]
  BY <1>3, AddUpEquation
<1>8. f[n] = Cardinality(UNION {P[s] : s \in 1..n})
  <2>1. \A k \in 1..n : f[k] = f[k - 1] + Cardinality(P[k])
    BY <1>2, <1>7
  <2>2. n \in Nat /\ f[0] = 0
    BY <1>1, <1>7
  <2>3. \A k \in 1..n : IsFiniteSet(P[k])
    BY <1>2
  <2> QED
    <3>1. SumOfSizes(n, P, f)
      BY <1>4, <2>1, <2>2, <2>3 DEF SumOfSizes
    <3> QED
      BY <3>1, SumIsCount
<1> QED
  BY <1>5, <1>6, <1>7, <1>8 DEF n

-----------------------------------------------------------------------------
(* Counts *)

\* Goroutine w has counted the shards from the first of its chunk to the one it is
\* at, and all of them when it adds.
Counted(w) ==
  LET lo == First(w, job.shards, workers)
      hi == After(w, job.shards, workers)
  IN  /\ pc[w] # "off" <=> w < workers /\ lo < job.shards
      /\ pc[w] = "run" => /\ at[w] \in lo..hi
                          /\ local[w] = Cardinality(Shared(job, lo..at[w] - 1))
      /\ pc[w] \in {"add", "store"} => local[w] = Cardinality(Shared(job, lo..hi - 1))

\* The shards of goroutine w.
ShardsOf(w) ==
  {s \in 0..job.shards - 1 :
     First(w, job.shards, workers) <= s /\ s < After(w, job.shards, workers)}

\* The shards that the goroutines have added to the total.
Added == UNION {ShardsOf(w) : w \in {v \in Worker : pc[v] = "done"}}

CountAnswered == total = Cardinality(Shared(job, 0..job.shards - 1))

CountInv ==
  /\ phase = "idle" => total = 0
  /\ phase = "count" => /\ job \in Counts /\ ~DividesByZero(job) /\ workers \in 1..MaxProcs
                        /\ \A w \in Worker : Counted(w)
                        /\ total = Cardinality(Shared(job, Added))
  /\ IsCount => job \in Counts /\ ~DividesByZero(job) /\ CountAnswered
  /\ phase = "panic" /\ "shards" \in DOMAIN job => job \in Counts /\ DividesByZero(job)

LEMMA InitCount == Init => CountInv
  BY DEF Init, CountInv, IsCount, NoJob

\* What holds of the chunks during a count.
LEMMA CountChunks ==
  ASSUME CountInv, phase = "count", NEW w \in Worker
  PROVE  /\ job \in Counts /\ job.shards \in Nat \ {0} /\ workers \in Nat \ {0} /\ w \in Nat
         /\ First(w, job.shards, workers) \in Nat /\ After(w, job.shards, workers) \in Nat
         /\ After(w, job.shards, workers) <= job.shards
<1>1. job \in Counts /\ workers \in 1..MaxProcs
  BY DEF CountInv
<1>2. job.shards \in Nat \ {0} /\ workers \in Nat \ {0} /\ w \in Nat
  BY <1>1, CountJobs, MostProcs DEF Worker
<1> QED
  BY <1>1, <1>2, ChunkBounds

\* A count begins: nothing is counted.
LEMMA CountStarts ==
  ASSUME CountInv, NEW c \in Counts, NEW p \in Procs, Count(c, p),
         ~DividesByZero(c), Smaller(p, c.shards) > 1
  PROVE  CountInv'
<1> DEFINE n == c.shards
           k == Smaller(p, n)
<1>1. /\ phase = "idle" /\ phase' = "count" /\ job' = c /\ workers' = k /\ total' = total
      /\ pc' = [w \in Worker |-> IF w < k /\ First(w, n, k) < n THEN "run" ELSE "off"]
      /\ at' = [w \in Worker |-> IF w < k /\ First(w, n, k) < n THEN First(w, n, k) ELSE 0]
      /\ local' = [w \in Worker |-> 0]
  <2>1. /\ phase = "idle" /\ phase' = "count" /\ job' = c /\ total' = total
        /\ Fork(n, k, 0)
    <3>1. c.shards \in Nat /\ p \in Nat
      BY CountJobs, EnginesAssumption
    <3>2. ~(Smaller(p, c.shards) <= 1)
      BY <3>1 DEF Smaller
    <3> QED
      BY <3>2 DEF Count
  <2> HIDE DEF n, k
  <2> QED
    BY <2>1 DEF Fork, First
<1>2. n \in Nat \ {0} /\ k \in Nat \ {0} /\ k <= MaxProcs
  <2>1. n \in Nat \ {0}
    BY CountJobs
  <2>2. p \in Nat \ {0} /\ p <= MaxProcs /\ MaxProcs \in Nat
    BY MostProcs, EnginesAssumption
  <2> HIDE DEF n
  <2> QED
    BY <2>1, <2>2 DEF Smaller
<1>3. ASSUME NEW w \in Worker PROVE Counted(w)'
  <2> DEFINE lo == First(w, n, k)
             hi == After(w, n, k)
             go == w < k /\ lo < n
  <2>1. w \in Nat
    BY MostProcs DEF Worker
  <2>2. lo \in Nat /\ hi \in Nat
    BY <1>2, <2>1, ChunkBounds
  <2>3. lo < n => lo < hi
    BY <1>2, <2>1, ChunkBounds
  <2>4. /\ pc'[w] = (IF go THEN "run" ELSE "off")
        /\ at'[w] = (IF go THEN lo ELSE 0) /\ local'[w] = 0
    BY <1>1
  <2>5. Counted(w)' <=>
          /\ pc'[w] # "off" <=> go
          /\ pc'[w] = "run" => /\ at'[w] \in lo..hi
                               /\ local'[w] = Cardinality(Shared(c, lo..at'[w] - 1))
          /\ pc'[w] \in {"add", "store"} => local'[w] = Cardinality(Shared(c, lo..hi - 1))
    BY <1>1 DEF Counted
  <2>6. lo..lo - 1 = {}
    BY <2>2
  <2>7. Cardinality(Shared(c, lo..lo - 1)) = 0
    BY <2>6, NothingShared
  <2> HIDE DEF lo, hi
  <2> QED
    BY <2>2, <2>3, <2>4, <2>5, <2>7 DEF go
<1>4. k \in 1..MaxProcs
  BY <1>2, MostProcs
<1>5. total' = Cardinality(Shared(c, Added'))
  <2>1. Added' = {}
    BY <1>1 DEF Added
  <2>2. total' = 0
    BY <1>1 DEF CountInv
  <2> QED
    BY <2>1, <2>2, NothingShared
<1> QED
  BY <1>1, <1>3, <1>4, <1>5 DEF CountInv, IsCount

\* One goroutine counts its next shard.
LEMMA CountShardCounts ==
  ASSUME CountInv, SearchInv, NEW w \in Worker, CountShard(w)
  PROVE  CountInv'
<1> DEFINE n == job.shards
           i == at[w]
           lo == First(w, n, workers)
           hi == After(w, n, workers)
<1>1. /\ phase = "count" /\ pc[w] = "run" /\ at[w] < hi
      /\ local' = [local EXCEPT ![w] = @ + CountOf(job, at[w])]
      /\ at' = [at EXCEPT ![w] = @ + 1]
      /\ UNCHANGED <<phase, job, workers, pc, total>>
  BY EndsAfterLast DEF CountShard, Size
<1>2. job \in Counts /\ lo \in Nat /\ hi \in Nat
  BY <1>1, CountChunks
<1>3. i \in lo..hi /\ local[w] = Cardinality(Shared(job, lo..i - 1))
  BY <1>1 DEF CountInv, Counted
<1>4. /\ at'[w] = i + 1 /\ local'[w] = local[w] + CountOf(job, i)
      /\ \A v \in Worker : v # w => at'[v] = at[v] /\ local'[v] = local[v]
  BY <1>1 DEF SearchInv
<1> HIDE DEF lo, hi
<1>5. local'[w] = Cardinality(Shared(job, lo..(i + 1) - 1)) /\ i + 1 \in lo..hi
  <2>1. i \in Nat /\ (lo..i - 1) \cap {i} = {} /\ (lo..i - 1) \cup {i} = lo..(i + 1) - 1
        /\ i + 1 \in lo..hi
    BY <1>1, <1>2, <1>3
  <2>2. CountOf(job, i) = Cardinality(Shared(job, {i}))
    BY <1>2, <2>1, CountOfShard
  <2> DEFINE S == lo..i - 1
             T == {i}
  <2>3. S \cap T = {} /\ S \cup T = lo..(i + 1) - 1
    BY <2>1
  <2>4. local[w] = Cardinality(Shared(job, S)) /\ CountOf(job, i) = Cardinality(Shared(job, T))
    BY <1>3, <2>2
  <2> HIDE DEF S, T
  <2>5. Cardinality(Shared(job, S \cup T)) = Cardinality(Shared(job, S)) + Cardinality(Shared(job, T))
    BY <1>2, <2>3, SharesAddUp
  <2> QED
    BY <1>4, <2>1, <2>3, <2>4, <2>5
<1> HIDE DEF i
<1>6. ASSUME NEW v \in Worker PROVE Counted(v)'
  <2>1. Counted(v)
    BY <1>1 DEF CountInv
  <2>2. CASE v = w
    BY <1>1, <1>4, <1>5, <2>1, <2>2 DEF Counted, lo, hi
  <2>3. CASE v # w
    BY <1>1, <1>4, <2>1, <2>3 DEF Counted
  <2> QED
    BY <2>2, <2>3
<1>7. Added' = Added
  BY <1>1 DEF Added, ShardsOf
<1> QED
  BY <1>1, <1>6, <1>7 DEF CountInv, IsCount

\* A goroutine is done with its chunk, or reads the total.
LEMMA LockCounts ==
  ASSUME CountInv, SearchInv, NEW w \in Worker, Lock(w)
  PROVE  CountInv'
<1>1. /\ phase = "count" /\ pc[w] = "run" /\ at[w] = After(w, job.shards, workers)
      /\ pc' = [pc EXCEPT ![w] = "add"]
      /\ UNCHANGED <<phase, job, workers, at, local, total>>
  BY EndsAfterLast DEF Lock, Size
<1>2. pc'[w] = "add" /\ \A v \in Worker : v # w => pc'[v] = pc[v]
  BY <1>1 DEF SearchInv
<1>3. ASSUME NEW v \in Worker PROVE Counted(v)'
  <2>1. Counted(v)
    BY <1>1 DEF CountInv
  <2>2. CASE v = w
    BY <1>1, <1>2, <2>1, <2>2 DEF Counted
  <2>3. CASE v # w
    BY <1>1, <1>2, <2>1, <2>3 DEF Counted
  <2> QED
    BY <2>2, <2>3
<1>4. Added' = Added
  <2>1. \A v \in Worker : pc'[v] = "done" <=> pc[v] = "done"
    BY <1>1, <1>2
  <2> QED
    BY <1>1, <2>1 DEF Added, ShardsOf
<1> QED
  BY <1>1, <1>3, <1>4 DEF CountInv, IsCount

LEMMA LoadCounts ==
  ASSUME CountInv, SearchInv, MutexInv, NEW w \in Worker, LoadTotal(w)
  PROVE  CountInv'
<1>1. /\ pc[w] = "add" /\ pc' = [pc EXCEPT ![w] = "store"]
      /\ UNCHANGED <<phase, job, workers, at, local, total>>
  BY DEF LoadTotal
<1>2. phase = "count"
  <2>1. phase \in {"search", "count"}
    BY <1>1 DEF MutexInv
  <2> QED
    BY <1>1, <2>1 DEF SearchInv, Searched
<1>3. pc'[w] = "store" /\ \A v \in Worker : v # w => pc'[v] = pc[v]
  BY <1>1 DEF SearchInv
<1>4. ASSUME NEW v \in Worker PROVE Counted(v)'
  <2>1. Counted(v)
    BY <1>2 DEF CountInv
  <2>2. CASE v = w
    BY <1>1, <1>3, <2>1, <2>2 DEF Counted
  <2>3. CASE v # w
    BY <1>1, <1>3, <2>1, <2>3 DEF Counted
  <2> QED
    BY <2>2, <2>3
<1>5. Added' = Added
  <2>1. \A v \in Worker : pc'[v] = "done" <=> pc[v] = "done"
    BY <1>1, <1>3
  <2> QED
    BY <1>1, <2>1 DEF Added, ShardsOf
<1> QED
  BY <1>1, <1>2, <1>4, <1>5 DEF CountInv, IsCount

\* A goroutine's chunk joins the total, and it joins nobody else's.
LEMMA StoreCounts ==
  ASSUME CountInv, SearchInv, MutexInv, NEW w \in Worker, StoreTotal(w)
  PROVE  CountInv'
<1> DEFINE n == job.shards
           lo == First(w, n, workers)
           hi == After(w, n, workers)
<1>1. /\ pc[w] = "store" /\ pc' = [pc EXCEPT ![w] = "done"] /\ total' = loaded[w] + local[w]
      /\ UNCHANGED <<phase, job, workers, at, local>>
  BY DEF StoreTotal
<1>2. phase = "count"
  <2>1. phase \in {"search", "count"}
    BY <1>1 DEF MutexInv
  <2> QED
    BY <1>1, <2>1 DEF SearchInv, Searched
<1>3. /\ pc'[w] = "done" /\ \A v \in Worker : v # w => pc'[v] = pc[v]
  BY <1>1 DEF SearchInv
<1>4. /\ job \in Counts /\ n \in Nat \ {0} /\ workers \in Nat \ {0} /\ w \in Nat
      /\ lo \in Nat /\ hi \in Nat /\ hi <= n
  BY <1>2, CountChunks
<1>5. /\ total = Cardinality(Shared(job, Added)) /\ loaded[w] = total
      /\ local[w] = Cardinality(Shared(job, lo..hi - 1))
      /\ w < workers
  BY <1>1, <1>2 DEF CountInv, Counted, MutexInv, NoLostUpdate
<1>6. ShardsOf(w) = lo..hi - 1
  <2>1. ShardsOf(w) = {s \in 0..n - 1 : lo <= s /\ s < hi}
    BY DEF ShardsOf
  <2> HIDE DEF lo, hi, n
  <2> QED
    BY <1>4, <2>1
<1>7. Added' = Added \cup ShardsOf(w)
  <2>1. \A v \in Worker : ShardsOf(v)' = ShardsOf(v)
    BY <1>1 DEF ShardsOf
  <2>2. \A v \in Worker : pc'[v] = "done" <=> pc[v] = "done" \/ v = w
    BY <1>3
  <2> HIDE DEF n, lo, hi
  <2> QED
    BY <2>1, <2>2 DEF Added
<1>8. Added \cap ShardsOf(w) = {}
  <2> SUFFICES ASSUME NEW v \in Worker, pc[v] = "done", NEW s \in ShardsOf(v), s \in ShardsOf(w)
               PROVE  FALSE
    BY DEF Added
  <2>1. v \in Nat /\ v < workers /\ v # w
    <3>1. Counted(v) /\ v \in Nat
      BY <1>2, CountChunks DEF CountInv
    <3> QED
      BY <1>1, <3>1 DEF Counted
  <2>2. v \in 0..workers - 1 /\ w \in 0..workers - 1
    BY <1>4, <1>5, <2>1
  <2>3. /\ s \in 0..n - 1
        /\ First(v, n, workers) <= s /\ s < After(v, n, workers)
        /\ First(w, n, workers) <= s /\ s < After(w, n, workers)
    BY DEF ShardsOf
  <2> HIDE DEF n
  <2>4. PICK o \in 0..workers - 1 :
          \A u \in 0..workers - 1 :
            (First(u, n, workers) <= s /\ s < After(u, n, workers)) => u = o
    BY <1>4, <2>3, EveryElementHasOneWorker
  <2> QED
    BY <2>1, <2>2, <2>3, <2>4
<1>9. total' = Cardinality(Shared(job, Added'))
  <2> DEFINE S == Added
             T == ShardsOf(w)
  <2>1. Cardinality(Shared(job, S \cup T)) = Cardinality(Shared(job, S)) + Cardinality(Shared(job, T))
    BY <1>4, <1>8, SharesAddUp
  <2> HIDE DEF lo, hi
  <2> QED
    BY <1>1, <1>5, <1>6, <1>7, <2>1
<1>10. ASSUME NEW v \in Worker PROVE Counted(v)'
  <2>1. Counted(v)
    BY <1>2 DEF CountInv
  <2>2. CASE v = w
    BY <1>1, <1>3, <2>1, <2>2 DEF Counted
  <2>3. CASE v # w
    BY <1>1, <1>3, <2>1, <2>3 DEF Counted
  <2> QED
    BY <2>2, <2>3
<1> QED
  BY <1>1, <1>2, <1>9, <1>10 DEF CountInv, IsCount

\* When all are done, every shard is added.
LEMMA WaitCounts ==
  ASSUME CountInv, MutexInv, phase = "count", Wait
  PROVE  CountInv'
<1> DEFINE n == job.shards
<1>1. /\ phase' = "returned" /\ UNCHANGED <<job, workers, total>>
      /\ \A w \in Worker : pc[w] \in {"off", "done"}
  BY DEF Wait
<1>2. /\ job \in Counts /\ ~DividesByZero(job) /\ workers \in 1..MaxProcs
      /\ n \in Nat \ {0} /\ workers \in Nat \ {0} /\ MaxProcs \in Nat
      /\ total = Cardinality(Shared(job, Added))
  <2>1. job \in Counts /\ ~DividesByZero(job) /\ workers \in 1..MaxProcs
        /\ total = Cardinality(Shared(job, Added))
    BY DEF CountInv
  <2>2. n \in Nat \ {0} /\ workers \in Nat \ {0} /\ MaxProcs \in Nat
    BY <2>1, CountJobs, MostProcs
  <2> QED
    BY <2>1, <2>2
<1>3. Added = 0..n - 1
  <2>1. ASSUME NEW s \in 0..n - 1 PROVE s \in Added
    <3> HIDE DEF n
    <3>1. PICK w \in 0..workers - 1 : First(w, n, workers) <= s /\ s < After(w, n, workers)
      BY <1>2, EveryElementHasOneWorker
    <3>2. w \in Worker /\ w < workers
      BY <1>2 DEF Worker
    <3>3. First(w, n, workers) \in Nat
      BY <3>2, CountChunks DEF n
    <3>4. First(w, n, workers) < n
      BY <1>2, <3>1, <3>3
    <3>5. pc[w] = "done"
      BY <1>1, <3>2, <3>4 DEF CountInv, Counted, n
    <3> QED
      BY <3>1, <3>2, <3>5 DEF Added, ShardsOf, n
  <2>2. Added \subseteq 0..n - 1
    BY DEF Added, ShardsOf
  <2> QED
    BY <2>1, <2>2
<1> QED
  BY <1>1, <1>2, <1>3 DEF CountInv, CountAnswered, IsCount

LEMMA StepCount == CountInv /\ SearchInv /\ MutexInv /\ [Next]_vars => CountInv'
<1> SUFFICES ASSUME CountInv, SearchInv, MutexInv, [Next]_vars PROVE CountInv'
  OBVIOUS
<1>1. ASSUME NEW j \in Searches, NEW p \in Procs, Search(j, p) PROVE CountInv'
  <2>1. phase' \in {"returned", "search"} /\ job' = j
    BY <1>1 DEF Search
  <2>2. "shards" \notin DOMAIN j
    BY SearchJobs, SMTT(30)
  <2> QED
    BY <2>1, <2>2 DEF CountInv, IsCount
<1>2. ASSUME NEW c \in Counts, NEW p \in Procs, Count(c, p) PROVE CountInv'
  <2>1. CASE DividesByZero(c)
    <3>1. phase' = "panic" /\ job' = c
      BY <1>2, <2>1 DEF Count
    <3>2. DividesByZero(job)'
      BY <2>1, <3>1 DEF DividesByZero, ShardBits
    <3> QED
      BY <3>1, <3>2 DEF CountInv, IsCount
  <2>2. CASE ~DividesByZero(c) /\ Smaller(p, c.shards) <= 1
    <3>1. phase' = "returned" /\ job' = c /\ total' = SerialCount(c)
      <4>1. c.shards \in Nat /\ p \in Nat
        BY CountJobs, EnginesAssumption
      <4>2. ~(Smaller(p, c.shards) > 1)
        BY <2>2, <4>1 DEF Smaller
      <4> QED
        BY <1>2, <2>2, <4>2 DEF Count
    <3>2. (~DividesByZero(job))'
      BY <2>2, <3>1 DEF DividesByZero, ShardBits
    <3>3. CountAnswered'
      BY <3>1, SerialCountIsExact DEF CountAnswered, Shared, ShardOf, ShardBits
    <3> QED
      BY <3>1, <3>2, <3>3 DEF CountInv
  <2>3. CASE ~DividesByZero(c) /\ Smaller(p, c.shards) > 1
    BY <1>2, <2>3, CountStarts
  <2> QED
    BY <1>2, <2>1, <2>2, <2>3 DEF Count
<1>3. ASSUME NEW b \in Bitsets, Kernel(b) PROVE CountInv'
  <2>1. phase' = "returned" /\ job' = b
    BY <1>3 DEF Kernel
  <2>2. "shards" \notin DOMAIN b
    BY EnginesAssumption
  <2> QED
    BY <2>1, <2>2 DEF CountInv, IsCount
<1>4. ASSUME NEW t \in Tables, LookUp(t) PROVE CountInv'
  <2>1. phase' \in {"panic", "returned"} /\ job' = t
    BY <1>4 DEF LookUp
  <2>2. "shards" \notin DOMAIN t
    BY EnginesAssumption
  <2> QED
    BY <2>1, <2>2 DEF CountInv, IsCount
<1>5. ASSUME NEW w \in Worker, Step(w) PROVE CountInv'
  <2>1. CASE Look(w) \/ Found(w)
    <3>1. phase = "search" /\ phase' = "search"
      BY <2>1 DEF Look, Found
    <3> QED
      BY <3>1 DEF CountInv, IsCount
  <2> QED
    BY <1>5, <2>1, CountShardCounts, LockCounts, LoadCounts, StoreCounts DEF Step
<1>6. CASE Wait
  <2>1. CASE phase = "count"
    BY <1>6, <2>1, WaitCounts
  <2>2. CASE phase = "search"
    <3>1. phase' = "returned" /\ job' = job /\ "shards" \notin DOMAIN job
      BY <1>6, <2>2, SearchJobs DEF Wait, SearchInv
    <3> QED
      BY <3>1 DEF CountInv, IsCount
  <2> QED
    BY <1>6, <2>1, <2>2 DEF Wait
<1>7. CASE Again
  BY <1>7 DEF Again, CountInv, IsCount
<1>8. CASE UNCHANGED vars
  <2>1. \A w \in Worker : Counted(w)' <=> Counted(w)
    BY <1>8 DEF vars, Counted
  <2>2. Added' = Added
    BY <1>8 DEF vars, Added, ShardsOf
  <2> QED
    BY <1>8, <2>1, <2>2 DEF vars, CountInv, IsCount, CountAnswered
<1> QED
  BY <1>1, <1>2, <1>3, <1>4, <1>5, <1>6, <1>7, <1>8 DEF Next

\* The ids of a list below a bound.
LEMMA BelowFacts ==
  ASSUME NEW s \in Seq(Nat), NEW cap \in Nat
  PROVE  Below(s, cap) \in Seq(Nat) /\ Elems(Below(s, cap)) = {id \in Elems(s) : id < cap}
<1> DEFINE A == 0..cap - 1
<1>1. Len(s) \in 0..Len(s) /\ Elems(s) = {s[i] : i \in 1..Len(s)} /\ Elems(s) \subseteq Nat
  BY ElemsFacts
<1>2. \A id \in Nat : id \in A <=> id < cap
  OBVIOUS
<1> HIDE DEF A
<1>3. /\ Kept(s, A)[Len(s)] \in Seq(Nat)
      /\ Elems(Kept(s, A)[Len(s)]) = {s[i] : i \in 1..Len(s)} \cap A
  BY <1>1, HitsOfPrefix
<1>4. Below(s, cap) = Kept(s, A)[Len(s)]
  BY DEF Below, A
<1> QED
  BY <1>1, <1>2, <1>3, <1>4

\* A sparse set holds the ids it was given.
LEMMA SparseFacts ==
  ASSUME NEW s \in Seq(Nat)
  PROVE  Sparse(s) \in AscendingSeqs /\ Elems(Sparse(s)) = Elems(s)
<1> DEFINE half == Len(s) \div 2
           l == SubSeq(s, 1, half)
           r == SubSeq(s, half + 1, Len(s))
           f == Finalize(l)
<1>1. Len(s) \in Nat /\ half \in 0..Len(s)
  BY LenProperties
<1> HIDE DEF half
<1>2. l \in Seq(Nat) /\ r \in Seq(Nat) /\ Elems(l) \cup Elems(r) = Elems(s)
  <2>1. /\ l \in Seq(Nat) /\ Len(l) = half /\ \A i \in 1..half : l[i] = s[i]
    BY <1>1, SubSeqProperties
  <2>2. /\ r \in Seq(Nat) /\ Len(r) = Len(s) - half
        /\ \A i \in 1..Len(s) - half : r[i] = s[half + i]
    BY <1>1, SubSeqProperties
  <2> HIDE DEF l, r
  <2>3. Elems(l) = {l[i] : i \in 1..half} /\ Elems(r) = {r[i] : i \in 1..Len(s) - half}
    BY <2>1, <2>2, ElemsFacts
  <2>4. Elems(s) = {s[i] : i \in 1..Len(s)}
    BY ElemsFacts
  <2>5. \A i \in 1..half : i \in 1..Len(s)
    BY <1>1
  <2>6. \A i \in 1..Len(s) - half : half + i \in 1..Len(s)
    BY <1>1
  <2>7. \A i \in 1..Len(s) : i \in 1..half \/ (i - half \in 1..Len(s) - half /\ half + (i - half) = i)
    BY <1>1
  <2>8. Elems(l) \subseteq Elems(s)
    BY <2>1, <2>3, <2>4, <2>5
  <2>9. Elems(r) \subseteq Elems(s)
    BY <2>2, <2>3, <2>4, <2>6
  <2>10. ASSUME NEW i \in 1..Len(s) PROVE s[i] \in Elems(l) \cup Elems(r)
    <3>1. CASE i \in 1..half
      BY <2>1, <2>3, <3>1
    <3>2. CASE i - half \in 1..Len(s) - half /\ half + (i - half) = i
      <4>1. r[i - half] = s[i]
        BY <2>2, <3>2
      <4> QED
        BY <2>3, <3>2, <4>1
    <3> QED
      BY <2>7, <3>1, <3>2
  <2>11. Elems(s) \subseteq Elems(l) \cup Elems(r)
    BY <2>4, <2>10
  <2> QED
    BY <2>1, <2>2, <2>8, <2>9, <2>11
<1>3. f \in Seq(Nat) /\ Elems(f) = Elems(l)
  BY <1>2, FinalizeFinalizes DEF AscendingSeqs
<1> HIDE DEF f, l, r
<1>4. f \o r \in Seq(Nat) /\ Elems(f \o r) = Elems(s)
  BY <1>2, <1>3, ElemsConcat
<1>5. Sparse(s) = Finalize(f \o r)
  BY DEF Sparse, f, l, r, half
<1> QED
  BY <1>4, <1>5, FinalizeFinalizes

\* Counting and membership of sparse sets.
LEMMA SparseCount ==
  ASSUME NEW s \in Seq(Nat), NEW t \in Seq(Nat)
  PROVE  AndCount(s, t) = Cardinality(Elems(s) \cap Elems(t))
<1> DEFINE a == Sparse(s)
           b == Sparse(t)
           m == IntersectSorted(a, b)
<1>1. /\ a \in Seq(Nat) /\ b \in Seq(Nat) /\ Ascending(a) /\ Ascending(b)
      /\ Elems(a) = Elems(s) /\ Elems(b) = Elems(t)
  BY SparseFacts DEF AscendingSeqs
<1> HIDE DEF a, b
<1>2. m \in Seq(Nat) /\ Ascending(m) /\ Elems(m) = Elems(a) \cap Elems(b)
  BY <1>1, MergeIsIntersection
<1> HIDE DEF m
<1>3. Len(m) = Cardinality(Elems(m))
  BY <1>2, CountAscending
<1> QED
  BY <1>1, <1>2, <1>3 DEF AndCount, m, a, b

LEMMA SparseMembership ==
  ASSUME NEW s \in Seq(Nat), NEW id \in Nat
  PROVE  SparseHas(s, id) <=> id \in Elems(s)
<1> DEFINE a == Sparse(s)
<1>1. a \in Seq(Nat) /\ Ascending(a) /\ Elems(a) = Elems(s)
  BY SparseFacts DEF AscendingSeqs
<1> HIDE DEF a
<1>2. Sorted(a)
  BY <1>1, AscendingIsSorted
<1> QED
  BY <1>1, <1>2, ContainsIsMembership DEF SparseHas, a

\* Membership in a bitset.
LEMMA BitsetMembership ==
  ASSUME NEW c \in Counts, ShardBits(c) # 0, NEW id \in Nat
  PROVE  Has(c, c.a, id) <=> id \in Elems(c.a) /\ id < c.shards * ShardBits(c)
<1> DEFINE s == ShardOf(c, id)
           o == s * ShardBits(c)
<1>1. /\ s \in 0..c.shards - 1 <=> id < c.shards * ShardBits(c)
      /\ s \in 0..c.shards - 1 \/ s = Outside
      /\ Outside \notin Nat
  BY ShardOfId
<1>2. Elems(c.a) \subseteq Nat /\ c.shards \in Nat /\ ShardBits(c) \in Nat
  BY CountJobs, ShardBitsFacts, EnginesAssumption DEF Id
<1>3. Has(c, c.a, id) <=> s # Outside /\ id - o \in Bits(c, c.a, s)
  BY DEF Has
<1>4. Bits(c, c.a, s) = {i - o : i \in {i \in Elems(c.a) : ShardOf(c, i) = s}}
  BY DEF Bits
<1>5. ASSUME s # Outside PROVE id - o \in Bits(c, c.a, s) <=> id \in Elems(c.a)
  <2>1. o \in Nat
    BY <1>1, <1>2, <1>5
  <2>2. ASSUME id - o \in Bits(c, c.a, s) PROVE id \in Elems(c.a)
    <3>1. PICK i \in Elems(c.a) : id - o = i - o
      BY <1>4, <2>2
    <3> HIDE DEF o
    <3>2. i \in Nat /\ i = id
      BY <1>2, <2>1, <3>1
    <3> QED
      BY <3>2
  <2>3. ASSUME id \in Elems(c.a) PROVE id - o \in Bits(c, c.a, s)
    BY <1>4, <2>3
  <2> QED
    BY <2>2, <2>3
<1> HIDE DEF s, o
<1>6. s # Outside <=> id < c.shards * ShardBits(c)
  <2>1. 0..c.shards - 1 \subseteq Nat
    BY <1>2
  <2> QED
    BY <1>1, <2>1
<1> QED
  BY <1>3, <1>5, <1>6

\* What a count says of its two sets, once it is exact.
LEMMA CountMeans ==
  ASSUME NEW c \in Counts, ~DividesByZero(c), NEW t, t = Cardinality(Shared(c, 0..c.shards - 1))
  PROVE  LET cap == c.shards * ShardBits(c)
         IN  /\ c.universe + c.shards <= Width => cap >= c.universe
             /\ t = Cardinality({id \in Elems(c.a) \cap Elems(c.b) : id < cap})
             /\ t = AndCount(Below(c.a, cap), Below(c.b, cap))
             /\ cap > 0 => \A id \in Id : Has(c, c.a, id) = SparseHas(Below(c.a, cap), id)
<1> DEFINE cap == c.shards * ShardBits(c)
           A == Elems(c.a)
           B == Elems(c.b)
<1>1. /\ cap \in Nat /\ (c.universe + c.shards <= Width => cap >= c.universe)
      /\ ShardBits(c) = 0 => A = {} /\ B = {}
  BY ShardBitsFacts
<1>2. /\ c.a \in Seq(Nat) /\ c.b \in Seq(Nat) /\ A \subseteq Nat /\ B \subseteq Nat
      /\ Id \subseteq Nat
  BY CountJobs, EnginesAssumption DEF Id
<1>3. Shared(c, 0..c.shards - 1) = {id \in A \cap B : id < cap}
  <2>1. CASE ShardBits(c) = 0
    BY <1>1, <2>1 DEF Shared
  <2>2. CASE ShardBits(c) # 0
    BY <1>2, <2>2, ShardOfId DEF Shared
  <2> QED
    BY <2>1, <2>2
<1>4. AndCount(Below(c.a, cap), Below(c.b, cap)) = Cardinality({id \in A \cap B : id < cap})
  <2> DEFINE a == Below(c.a, cap)
             b == Below(c.b, cap)
  <2> HIDE DEF cap
  <2>1. /\ a \in Seq(Nat) /\ Elems(a) = {id \in A : id < cap}
        /\ b \in Seq(Nat) /\ Elems(b) = {id \in B : id < cap}
    BY <1>1, <1>2, BelowFacts
  <2>2. Elems(a) \cap Elems(b) = {id \in A \cap B : id < cap}
    BY <2>1
  <2> HIDE DEF a, b
  <2>3. AndCount(a, b) = Cardinality(Elems(a) \cap Elems(b))
    BY <2>1, SparseCount
  <2> QED
    BY <2>2, <2>3 DEF a, b
<1>5. ASSUME cap > 0, NEW id \in Id PROVE Has(c, c.a, id) = SparseHas(Below(c.a, cap), id)
  <2>1. ShardBits(c) # 0
    BY <1>5, CountJobs
  <2>2. Has(c, c.a, id) <=> id \in A /\ id < cap
    BY <1>2, <2>1, BitsetMembership
  <2> HIDE DEF cap, A
  <2>3. SparseHas(Below(c.a, cap), id) <=> id \in A /\ id < cap
    <3> DEFINE a == Below(c.a, cap)
    <3>1. a \in Seq(Nat) /\ Elems(a) = {i \in A : i < cap}
      BY <1>1, <1>2, BelowFacts DEF A
    <3> HIDE DEF a
    <3>2. SparseHas(a, id) <=> id \in Elems(a)
      BY <1>2, <3>1, SparseMembership
    <3> QED
      BY <3>1, <3>2 DEF a
  <2>4. Has(c, c.a, id) \in BOOLEAN
    BY DEF Has
  <2>5. SparseHas(Below(c.a, cap), id) \in BOOLEAN
    BY DEF SparseHas, ContainsSorted
  <2> QED
    BY <2>2, <2>3, <2>4, <2>5
<1> QED
  BY <1>1, <1>3, <1>4, <1>5

\* IntersectCount counts the ids that both bitsets hold below their capacity, on any
\* number of goroutines that add to the total in any order; sparse sets of the same
\* ids count and contain the same.  Filling them panics for no universe but the empty
\* one and those whose round-up wraps.
THEOREM CountIsExact == Spec => []CountExact
<1>1. CountInv => CountExact
  <2> SUFFICES ASSUME CountInv PROVE CountExact
    OBVIOUS
  <2>1. CASE IsCount
    <3>1. /\ job \in Counts /\ ~DividesByZero(job)
          /\ total = Cardinality(Shared(job, 0..job.shards - 1))
      BY <2>1 DEF CountInv, CountAnswered
    <3>2. phase # "panic"
      BY <2>1 DEF IsCount
    <3>3. job.universe + job.shards \in Nat /\ Width \in Nat
      BY <3>1, CountJobs, EnginesAssumption
    <3>4. ~(job.universe + job.shards > Width) => job.universe + job.shards <= Width
      BY <3>3
    <3> QED
      BY <3>1, <3>2, <3>4, CountMeans DEF CountExact
  <2>2. CASE phase = "panic" /\ "shards" \in DOMAIN job
    <3>1. job \in Counts /\ ShardBits(job) = 0
      BY <2>2 DEF CountInv, DividesByZero
    <3>2. job.universe \in Nat /\ job.shards \in Nat /\ Width \in Nat
      BY <3>1, CountJobs, EnginesAssumption
    <3>3. job.universe + job.shards <= Width => job.shards * ShardBits(job) >= job.universe
      BY <3>1, ShardBitsFacts
    <3>4. job.universe + job.shards <= Width => job.universe = 0
      BY <3>1, <3>2, <3>3
    <3> QED
      BY <2>2, <3>2, <3>4 DEF CountExact, IsCount
  <2> QED
    BY <2>1, <2>2 DEF CountExact, IsCount
<1> QED
  BY InitMutex, StepMutex, InitSearch, StepSearch, InitCount, StepCount, <1>1, PTL DEF Spec

-----------------------------------------------------------------------------
(* Synonyms *)

Table == [ids : Seq(Nat), offsets : Seq(Nat), lengths : Seq(Nat), terms : Seq(Nat)]

\* A number below the width does not wrap.
LEMMA Remainder ==
  ASSUME NEW w \in Nat \ {0}, NEW x \in Nat
  PROVE  x % w \in Nat /\ (x < w => x % w = x)
OBVIOUS

LEMMA AddEntryType ==
  ASSUME NEW s \in Table, NEW e \in [term : Nat, synonyms : Seq(Nat)]
  PROVE  AddEntry(s, e) \in Table
<1>1. Wrap \in Nat \ {0}
  BY KernelAssumption
<1>2. /\ s.ids \in Seq(Nat) /\ s.offsets \in Seq(Nat) /\ s.lengths \in Seq(Nat)
      /\ s.terms \in Seq(Nat) /\ e.term \in Nat /\ e.synonyms \in Seq(Nat)
  BY DEF Table
<1>3. Len(s.ids) % Wrap \in Nat /\ Len(e.synonyms) % Wrap \in Nat
  <2>1. Len(s.ids) \in Nat /\ Len(e.synonyms) \in Nat
    BY <1>2, LenProperties
  <2> QED
    BY <1>1, <2>1, Remainder
<1>4. /\ s.ids \o e.synonyms \in Seq(Nat)
      /\ Append(s.offsets, Len(s.ids) % Wrap) \in Seq(Nat)
      /\ Append(s.lengths, Len(e.synonyms) % Wrap) \in Seq(Nat)
      /\ Append(s.terms, e.term) \in Seq(Nat)
  BY <1>2, <1>3, ConcatProperties, AppendProperties
<1> QED
  BY <1>4 DEF AddEntry, Table

\* NewSynonymStorage.
LEMMA TableEquation ==
  ASSUME NEW es \in Seq([term : Nat, synonyms : Seq(Nat)])
  PROVE  \E f \in [0..Len(es) -> Table] :
           /\ NewSynonymStorage(es) = f[Len(es)]
           /\ f[0] = NoTable
           /\ \A k \in 1..Len(es) : f[k] = AddEntry(f[k - 1], es[k])
<1> DEFINE n == Len(es)
           V == Table
           body(g) == [k \in 0..n |-> IF k = 0 THEN NoTable ELSE AddEntry(g[k - 1], es[k])]
           next == [p \in (1..n) \X V |-> AddEntry(p[2], es[p[1]])]
           f == CHOOSE f : f = body(f)
<1>1. n \in Nat /\ NoTable \in V /\ \A k \in 1..n : es[k] \in [term : Nat, synonyms : Seq(Nat)]
  <2>1. n \in Nat /\ NoTable \in V
    BY LenProperties DEF NoTable, Table
  <2> QED
    BY <2>1, ElementOfSeq
<1>2. Loop(n, V, NoTable, next)
  <2>1. next \in [(1..n) \X V -> V]
    <3> SUFFICES ASSUME NEW p \in (1..n) \X V PROVE AddEntry(p[2], es[p[1]]) \in V
      OBVIOUS
    <3> QED
      BY <1>1, AddEntryType
  <2> HIDE DEF next
  <2> QED
    BY <1>1, <2>1 DEF Loop
<1>3. PICK g \in [0..n -> V] : g = [k \in 0..n |-> IF k = 0 THEN NoTable ELSE next[<<k, g[k - 1]>>]]
  <2> HIDE DEF next
  <2>1. HasRounds(n, V, NoTable, next)
    BY <1>2, LoopSolution
  <2> QED
    BY <2>1 DEF HasRounds
<1>4. g = body(g)
  <2>1. \A k \in 0..n : k # 0 => k \in 1..n /\ k - 1 \in 0..n
    BY <1>1
  <2>2. \A k \in 0..n : k # 0 => next[<<k, g[k - 1]>>] = AddEntry(g[k - 1], es[k])
    <3> HIDE DEF V, n
    <3> QED
      BY <2>1
  <2> HIDE DEF next, V, n
  <2> QED
    BY <1>3, <2>2
<1>5. f = body(f)
  <2> HIDE DEF body
  <2> QED
    BY <1>4
<1>6. NewSynonymStorage(es) = f[n]
  BY Zenon DEF NewSynonymStorage
<1> HIDE DEF f
<1>7. f[0] = NoTable /\ \A k \in 1..n : f[k] = AddEntry(f[k - 1], es[k])
  <2>1. 0 \in 0..n /\ \A k \in 1..n : k \in 0..n /\ k # 0
    BY <1>1
  <2> HIDE DEF n
  <2>2. f = [k \in 0..n |-> IF k = 0 THEN NoTable ELSE AddEntry(f[k - 1], es[k])]
    BY <1>5
  <2> QED
    BY <2>1, <2>2
<1>8. f \in [0..n -> V]
  <2>1. f = [k \in 0..n |-> f[k]]
    BY <1>5
  <2>2. \A k \in 1..n : f[k - 1] \in V => f[k] = next[<<k, f[k - 1]>>]
    <3> HIDE DEF V, n
    <3> QED
      BY <1>7
  <2> HIDE DEF V, n, next
  <2>3. Rounds(f, n, V, NoTable, next)
    BY <1>7, <2>1, <2>2 DEF Rounds
  <2> QED
    BY <1>2, <2>3, LoopType
<1> QED
  BY <1>6, <1>7, <1>8

LEMMA EntryFields ==
  ASSUME NEW es \in Seq([term : Nat, synonyms : Seq(Nat)]), NEW k \in 1..Len(es)
  PROVE  /\ es[k].term \in Nat /\ es[k].synonyms \in Seq(Nat)
         /\ Len(es[k].synonyms) \in Nat
         /\ DOMAIN es[k].synonyms = 1..Len(es[k].synonyms)
<1>1. es[k] \in [term : Nat, synonyms : Seq(Nat)]
  BY ElementOfSeq
<1>2. es[k].term \in Nat /\ es[k].synonyms \in Seq(Nat)
  BY <1>1
<1> QED
  BY <1>2, LenProperties

\* Where the ids of every entry start and end in the table.
Starts(es, start) ==
  /\ es \in Seq([term : Nat, synonyms : Seq(Nat)])
  /\ start \in [0..Len(es) -> Nat] /\ start[0] = 0
  /\ \A k \in 1..Len(es) : start[k] = start[k - 1] + Len(es[k].synonyms)

\* The entries' ids lie in the table one after the other, and the offset, the length
\* and the term of an entry are its own.
Placed(es, table, start, n) ==
  /\ table \in Table
  /\ Len(table.ids) = start[n]
  /\ Len(table.terms) = n /\ Len(table.offsets) = n /\ Len(table.lengths) = n
  /\ \A k \in 1..n :
       /\ start[k] <= start[n]
       /\ table.terms[k] = es[k].term
       /\ table.offsets[k] = start[k - 1] % Wrap
       /\ table.lengths[k] = Len(es[k].synonyms) % Wrap
       /\ \A i \in 1..Len(es[k].synonyms) :
            table.ids[start[k - 1] + i] = es[k].synonyms[i]

\* One entry more.
LEMMA PlaceEntry ==
  ASSUME NEW es, NEW start, Starts(es, start), NEW n \in 0..Len(es) - 1, NEW table,
         Placed(es, table, start, n)
  PROVE  Placed(es, AddEntry(table, es[n + 1]), start, n + 1)
<1> DEFINE e == es[n + 1]
           new == AddEntry(table, e)
<1>0. /\ n \in Nat /\ Len(es) \in Nat /\ n + 1 \in 1..Len(es) /\ (n + 1) - 1 = n
      /\ e \in [term : Nat, synonyms : Seq(Nat)]
  <2>1. es \in Seq([term : Nat, synonyms : Seq(Nat)])
    BY DEF Starts
  <2>2. n \in Nat /\ Len(es) \in Nat /\ n + 1 \in 1..Len(es) /\ (n + 1) - 1 = n
    BY <2>1, LenProperties
  <2> QED
    BY <2>1, <2>2, ElementOfSeq
<1>1. /\ table.ids \in Seq(Nat) /\ table.offsets \in Seq(Nat) /\ table.lengths \in Seq(Nat)
      /\ table.terms \in Seq(Nat) /\ e.term \in Nat /\ e.synonyms \in Seq(Nat)
      /\ Len(table.ids) = start[n] /\ Len(table.terms) = n
      /\ Len(table.offsets) = n /\ Len(table.lengths) = n
  BY <1>0 DEF Placed, Table
<1>2. new \in Table
  BY <1>0, AddEntryType DEF Placed
<1>3. Len(e.synonyms) \in Nat /\ start[n] \in Nat /\ start[n + 1] = start[n] + Len(e.synonyms)
  <2>1. Len(e.synonyms) \in Nat
    BY <1>1, LenProperties
  <2>2. start[n] \in Nat
    <3>1. n \in 0..Len(es)
      BY <1>0
    <3> QED
      BY <3>1 DEF Starts
  <2>3. start[n + 1] = start[(n + 1) - 1] + Len(e.synonyms)
    BY <1>0 DEF Starts
  <2> QED
    BY <1>0, <2>1, <2>2, <2>3
<1>4. /\ Len(new.ids) = start[n + 1]
      /\ \A i \in 1..start[n] + Len(e.synonyms) :
           new.ids[i] = IF i <= start[n] THEN table.ids[i] ELSE e.synonyms[i - start[n]]
  <2> DEFINE a == table.ids
             b == e.synonyms
             c == new.ids
  <2>1. c = a \o b
    BY DEF AddEntry
  <2>2. a \in Seq(Nat) /\ b \in Seq(Nat) /\ Len(a) = start[n]
    BY <1>1
  <2> HIDE DEF new, e, a, b, c
  <2>3. /\ Len(c) = start[n] + Len(b)
        /\ \A i \in 1..start[n] + Len(b) : c[i] = IF i <= start[n] THEN a[i] ELSE b[i - start[n]]
    <3>1. Len(c) = Len(a) + Len(b) /\ \A i \in 1..Len(a) + Len(b) : c[i] = IF i <= Len(a) THEN a[i] ELSE b[i - Len(a)]
      BY <2>1, <2>2, ConcatProperties
    <3> QED
      BY <2>2, <3>1
  <2> QED
    BY <1>3, <2>3 DEF a, b, c
<1>5. /\ Len(new.terms) = n + 1 /\ new.terms[n + 1] = e.term
      /\ \A k \in 1..n : new.terms[k] = table.terms[k]
  <2>1. new.terms = Append(table.terms, e.term)
    BY DEF AddEntry
  <2> HIDE DEF new, e
  <2> QED
    BY <1>1, <2>1, AppendProperties
<1>6. Wrap \in Nat \ {0}
  BY KernelAssumption
<1>7. /\ Len(new.offsets) = n + 1 /\ new.offsets[n + 1] = start[n] % Wrap
      /\ \A k \in 1..n : new.offsets[k] = table.offsets[k]
  <2>1. new.offsets = Append(table.offsets, start[n] % Wrap)
    BY <1>1 DEF AddEntry
  <2>2. start[n] % Wrap \in Nat
    BY <1>3, <1>6, Remainder
  <2> HIDE DEF new, e
  <2> QED
    BY <1>1, <2>1, <2>2, AppendProperties
<1>8. /\ Len(new.lengths) = n + 1 /\ new.lengths[n + 1] = Len(e.synonyms) % Wrap
      /\ \A k \in 1..n : new.lengths[k] = table.lengths[k]
  <2>1. new.lengths = Append(table.lengths, Len(e.synonyms) % Wrap)
    BY DEF AddEntry
  <2>2. Len(e.synonyms) % Wrap \in Nat
    BY <1>3, <1>6, Remainder
  <2> HIDE DEF new, e
  <2> QED
    BY <1>1, <2>1, <2>2, AppendProperties
<1>9. ASSUME NEW k \in 1..n
      PROVE  /\ start[k] <= start[n] /\ start[k] \in Nat /\ start[k - 1] \in Nat
             /\ Len(es[k].synonyms) \in Nat
             /\ start[k] = start[k - 1] + Len(es[k].synonyms)
             /\ table.terms[k] = es[k].term
             /\ table.offsets[k] = start[k - 1] % Wrap
             /\ table.lengths[k] = Len(es[k].synonyms) % Wrap
             /\ \A i \in 1..Len(es[k].synonyms) :
                  table.ids[start[k - 1] + i] = es[k].synonyms[i]
  <2>1. k \in 1..Len(es) /\ k \in 0..Len(es) /\ k - 1 \in 0..Len(es)
    BY <1>0, SMTT(30)
  <2>2. es[k].synonyms \in Seq(Nat)
    BY <2>1, EntryFields DEF Starts
  <2>3. Len(es[k].synonyms) \in Nat
    BY <2>2, LenProperties
  <2>4. start[k] \in Nat /\ start[k - 1] \in Nat /\ start[k] = start[k - 1] + Len(es[k].synonyms)
    BY <2>1 DEF Starts
  <2> QED
    BY <2>3, <2>4 DEF Placed
<1> HIDE DEF new
<1>10. ASSUME NEW k \in 1..n + 1
       PROVE  /\ start[k] <= start[n + 1]
              /\ new.terms[k] = es[k].term
              /\ new.offsets[k] = start[k - 1] % Wrap
              /\ new.lengths[k] = Len(es[k].synonyms) % Wrap
              /\ \A i \in 1..Len(es[k].synonyms) :
                   new.ids[start[k - 1] + i] = es[k].synonyms[i]
  <2>1. CASE k \in 1..n
    <3>1. start[k] <= start[n + 1]
      BY <1>3, <1>9, <2>1
    <3>2. ASSUME NEW i \in 1..Len(es[k].synonyms)
          PROVE  new.ids[start[k - 1] + i] = es[k].synonyms[i]
      <4> DEFINE x == start[k - 1] + i
      <4>0. /\ start[k] <= start[n] /\ start[k] \in Nat /\ start[k - 1] \in Nat
            /\ Len(es[k].synonyms) \in Nat /\ start[k] = start[k - 1] + Len(es[k].synonyms)
            /\ i \in Nat /\ 1 <= i /\ i <= Len(es[k].synonyms)
        BY <1>9, <2>1
      <4>1. x \in 1..start[n] + Len(e.synonyms) /\ x <= start[n]
        <5> DEFINE low == start[k - 1]
                   high == start[k]
                   m == Len(e.synonyms)
                   l == Len(es[k].synonyms)
        <5>1. m \in Nat /\ start[n] \in Nat /\ x = low + i
          BY <1>3
        <5>2. high <= start[n] /\ high \in Nat /\ low \in Nat /\ l \in Nat /\ high = low + l
          BY <4>0
        <5>3. i \in Nat /\ 1 <= i /\ i <= l
          BY <4>0
        <5> HIDE DEF e, x, low, high, m, l
        <5> QED
          BY <5>1, <5>2, <5>3, SMTT(30) DEF m
      <4>2. new.ids[x] = table.ids[x]
        <5> HIDE DEF x, e
        <5> QED
          BY <1>4, <4>1
      <4> QED
        BY <1>9, <2>1, <4>2
    <3> QED
      BY <1>5, <1>7, <1>8, <1>9, <2>1, <3>1, <3>2
  <2>2. CASE k = n + 1
    <3>1. start[k - 1] = start[n] /\ es[k] = e
      BY <1>0, <2>2
    <3>2. start[k] <= start[n + 1]
      BY <1>3, <2>2
    <3>3. ASSUME NEW i \in 1..Len(e.synonyms)
          PROVE  new.ids[start[n] + i] = e.synonyms[i]
      <4>1. /\ start[n] + i \in 1..start[n] + Len(e.synonyms) /\ ~(start[n] + i <= start[n])
            /\ (start[n] + i) - start[n] = i
        BY <1>3, SMTT(30)
      <4> QED
        BY <1>4, <4>1
    <3> HIDE DEF e
    <3> QED
      BY <1>5, <1>7, <1>8, <2>2, <3>1, <3>2, <3>3
  <2>3. k \in 1..n \/ k = n + 1
    BY <1>0
  <2> QED
    BY <2>1, <2>2, <2>3
<1> QED
  <2>1. Placed(es, new, start, n + 1)
    <3> HIDE DEF e
    <3> QED
      BY <1>2, <1>4, <1>5, <1>7, <1>8, <1>10 DEF Placed
  <2> QED
    BY <2>1 DEF new

\* The whole table.
LEMMA TableHasEntries ==
  ASSUME NEW es \in Seq([term : Nat, synonyms : Seq(Nat)])
  PROVE  \E start : Starts(es, start) /\ Placed(es, NewSynonymStorage(es), start, Len(es))
<1> DEFINE N == Len(es)
           lens == [k \in 1..N |-> Len(es[k].synonyms)]
<1>1. N \in Nat /\ \A k \in 1..N : es[k].synonyms \in Seq(Nat)
  BY LenProperties, EntryFields
<1>2. lens \in Seq(Nat) /\ Len(lens) = N
  <2>1. \A k \in 1..N : Len(es[k].synonyms) \in Nat
    BY <1>1, LenProperties
  <2>2. lens \in [1..N -> Nat]
    BY <2>1
  <2> HIDE DEF lens, N
  <2> QED
    BY <1>1, <2>2, FunctionIsSeq
<1>3. PICK start \in [0..N -> Nat] : start[0] = 0 /\ \A k \in 1..N : start[k] = start[k - 1] + lens[k]
  <2> HIDE DEF lens, N
  <2> QED
    BY <1>2, AddUpEquation
<1>4. Starts(es, start)
  BY <1>3 DEF Starts
<1>5. PICK table \in [0..N -> Table] :
        /\ NewSynonymStorage(es) = table[N]
        /\ table[0] = NoTable
        /\ \A k \in 1..N : table[k] = AddEntry(table[k - 1], es[k])
  BY TableEquation
<1> HIDE DEF N
<1> DEFINE S == {n \in 0..N : Placed(es, table[n], start, n)}
<1>6. 0 \in S
  <2>1. NoTable \in Table /\ Len(NoTable.ids) = 0 /\ Len(NoTable.terms) = 0
        /\ Len(NoTable.offsets) = 0 /\ Len(NoTable.lengths) = 0
    BY DEF NoTable, Table
  <2>2. Placed(es, NoTable, start, 0)
    BY <1>3, <2>1 DEF Placed
  <2> QED
    BY <1>1, <1>5, <2>2
<1>7. ASSUME NEW n \in 1..N, n - 1 \in S PROVE n \in S
  <2> DEFINE m == n - 1
  <2>1. m \in 0..Len(es) - 1 /\ m + 1 = n /\ n \in 0..N
    BY <1>1 DEF N
  <2>2. Placed(es, table[m], start, m) /\ table[n] = AddEntry(table[m], es[n])
    BY <1>5, <1>7
  <2> HIDE DEF m
  <2>3. Placed(es, AddEntry(table[m], es[m + 1]), start, m + 1)
    BY <1>4, <2>1, <2>2, PlaceEntry
  <2> QED
    BY <2>1, <2>2, <2>3
<1>8. Placed(es, table[N], start, N)
  <2>1. \A n \in 0..N : n \in S
    <3> HIDE DEF S
    <3> QED
      BY <1>1, <1>6, <1>7, LoopInvariant
  <2> QED
    BY <1>1, <2>1
<1> QED
  BY <1>4, <1>5, <1>8 DEF N

\* The synonyms of the first n entries, each with its place.
Places(es, n) == UNION {{<<j, i>> : i \in DOMAIN es[j].synonyms} : j \in 1..n}

LEMMA PlacesAreCounted ==
  ASSUME NEW es, NEW start, Starts(es, start), NEW N \in 0..Len(es)
  PROVE  Cardinality(Places(es, N)) = start[N]
<1> DEFINE P == [k \in 1..N |-> {<<k, i>> : i \in 1..Len(es[k].synonyms)}]
<1>1. /\ N \in Nat /\ \A k \in 1..N : k \in 1..Len(es)
      /\ \A k \in 1..N : es[k].synonyms \in Seq(Nat)
  <2>1. es \in Seq([term : Nat, synonyms : Seq(Nat)])
    BY DEF Starts
  <2>2. N \in Nat /\ \A k \in 1..N : k \in 1..Len(es)
    BY <2>1, LenProperties
  <2> QED
    BY <2>1, <2>2, EntryFields
<1>2. \A k \in 1..N : Len(es[k].synonyms) \in Nat /\ DOMAIN es[k].synonyms = 1..Len(es[k].synonyms)
  BY <1>1, LenProperties
<1>3. ASSUME NEW k \in 1..N PROVE IsFiniteSet(P[k]) /\ Cardinality(P[k]) = Len(es[k].synonyms)
  <2> DEFINE l == Len(es[k].synonyms)
             f == [i \in 1..l |-> <<k, i>>]
             Q == {<<k, i>> : i \in 1..l}
  <2>1. l \in Nat /\ P[k] = Q
    BY <1>2
  <2> HIDE DEF l
  <2>2. f \in Bijection(1..l, Q)
    <3>1. f \in [1..l -> Q]
      OBVIOUS
    <3>2. \A i, j \in 1..l : f[i] = f[j] => i = j
      OBVIOUS
    <3>3. \A q \in Q : \E i \in 1..l : f[i] = q
      OBVIOUS
    <3> HIDE DEF f, Q
    <3> QED
      BY <3>1, <3>2, <3>3, Fun_IsBij
  <2>3. ExistsBijection(1..l, Q)
    <3> HIDE DEF f, Q
    <3> QED
      BY <2>2 DEF ExistsBijection
  <2>4. IsFiniteSet(1..l) /\ Cardinality(1..l) = l
    BY <2>1, FS_Interval
  <2> HIDE DEF Q
  <2> QED
    BY <2>1, <2>3, <2>4, FS_Bijection DEF l
<1>4. \A k, j \in 1..N : k # j => P[k] \cap P[j] = {}
  OBVIOUS
<1>5. Places(es, N) = UNION {P[k] : k \in 1..N}
  <2>1. \A k \in 1..N : P[k] = {<<k, i>> : i \in DOMAIN es[k].synonyms}
    BY <1>2
  <2> HIDE DEF P
  <2> QED
    BY <1>1, <2>1 DEF Places
<1>6. start[0] = 0 /\ \A k \in 1..N : start[k] = start[k - 1] + Cardinality(P[k])
  <2> HIDE DEF P
  <2> QED
    BY <1>1, <1>3 DEF Starts
<1> HIDE DEF P
<1>7. SumOfSizes(N, P, start)
  BY <1>1, <1>3, <1>4, <1>6 DEF SumOfSizes
<1> QED
  BY <1>5, <1>7, SumIsCount

\* A term is answered by its first entry, if an offset can count the ids up to its end.
LEMMA SynonymsAreFirst ==
  ASSUME NEW es \in Seq([term : Nat, synonyms : Seq(Nat)]), NEW term \in Nat
  PROVE  LET own == {k \in DOMAIN es : es[k].term = term /\ \A i \in 1..k - 1 : es[i].term # term}
             syns == Synonyms(NewSynonymStorage(es), term)
         IN  /\ own = {} => syns = <<>>
             /\ \A k \in own : Cardinality(Places(es, k)) < Wrap =>
                                 syns = es[k].synonyms /\ syns \in Seq(Nat)
<1> DEFINE N == Len(es)
           table == NewSynonymStorage(es)
           own == {k \in DOMAIN es : es[k].term = term /\ \A i \in 1..k - 1 : es[i].term # term}
           found == {k \in DOMAIN table.terms : table.terms[k] = term}
           syns == Synonyms(table, term)
<1>1. PICK start : Starts(es, start) /\ Placed(es, table, start, N)
  BY TableHasEntries
<1>2. N \in Nat /\ DOMAIN es = 1..N /\ Wrap \in Nat \ {0}
  BY LenProperties, KernelAssumption
<1> HIDE DEF table
<1>4. table.ids \in Seq(Nat) /\ table.terms \in Seq(Nat) /\ Len(table.ids) = start[N] /\ Len(table.terms) = N
  BY <1>1 DEF Placed, Table
<1>5. DOMAIN table.terms = 1..N /\ \A k \in 1..N : table.terms[k] = es[k].term
  BY <1>1, <1>4, LenProperties DEF Placed
<1>6. own = {} => found = {}
  <2> SUFFICES ASSUME found # {} PROVE own # {}
    OBVIOUS
  <2>1. term \in Elems(table.terms)
    BY DEF Elems
  <2> DEFINE k == FirstPlace(table.terms, term)
  <2>2. IsFirst(table.terms, term, k)
    BY <1>4, <2>1, FirstPlaceIsFirst
  <2> HIDE DEF k
  <2>3. k \in 1..N /\ table.terms[k] = term /\ \A i \in 1..k - 1 : table.terms[i] # term
    BY <1>5, <2>2 DEF IsFirst
  <2>4. \A i \in 1..k - 1 : i \in 1..N
    BY <1>2, <2>3
  <2>5. es[k].term = term /\ \A i \in 1..k - 1 : es[i].term # term
    BY <1>5, <2>3, <2>4
  <2>6. k \in own
    BY <1>2, <2>3, <2>5
  <2> QED
    BY <2>6
<1>7. found = {} => syns = <<>>
  BY DEF Synonyms
<1>8. ASSUME NEW k \in own, Cardinality(Places(es, k)) < Wrap
      PROVE  syns = es[k].synonyms /\ es[k].synonyms \in Seq(Nat)
  <2> DEFINE lo == start[k - 1]
             len == Len(es[k].synonyms)
             ids == table.ids
  <2>1. k \in 1..N /\ k \in found /\ \A j \in found : k <= j
    <3>1. k \in 1..N /\ es[k].term = term /\ \A i \in 1..k - 1 : es[i].term # term
      BY <1>2
    <3>2. \A j \in found : j \in 1..N /\ es[j].term = term
      BY <1>5
    <3>3. \A j \in found : ~(j \in 1..k - 1)
      BY <3>1, <3>2
    <3>4. k \in found
      BY <1>5, <3>1
    <3> HIDE DEF found, N
    <3> QED
      BY <1>2, <3>1, <3>2, <3>3, <3>4
  <2>2. k = CHOOSE j \in found : \A i \in found : j <= i
    <3>1. \A j \in found : j \in Nat
      BY <1>5
    <3>2. \A j \in found : (\A i \in found : j <= i) => j = k
      BY <2>1, <3>1
    <3> QED
      BY <2>1, <3>2
  <2>3. es[k].synonyms \in Seq(Nat)
    BY <2>1, EntryFields
  <2>4. len \in Nat /\ lo \in Nat /\ lo + len = start[k] /\ start[k] <= start[N] /\ start[N] \in Nat
    <3>1. len \in Nat
      BY <2>3, LenProperties
    <3>2. k - 1 \in 0..N /\ N \in 0..N
      BY <1>2, <2>1
    <3> HIDE DEF found, own
    <3>3. lo \in Nat /\ start[N] \in Nat /\ start[k] = lo + len
      BY <1>1, <2>1, <3>2 DEF Starts
    <3>4. start[k] <= start[N]
      BY <1>1, <2>1 DEF Placed
    <3> QED
      BY <3>1, <3>3, <3>4
  <2>5. table.offsets[k] = lo % Wrap /\ table.lengths[k] = len % Wrap
        /\ \A i \in 1..len : ids[lo + i] = es[k].synonyms[i]
    BY <1>1, <2>1 DEF Placed
  <2>10. start[k] < Wrap
    <3>1. k \in 0..Len(es)
      BY <1>2, <2>1
    <3> QED
      BY <1>1, <1>8, <3>1, PlacesAreCounted
  <2> HIDE DEF lo, len, found, own
  <2>6. lo % Wrap = lo /\ len % Wrap = len /\ (lo + len) % Wrap = lo + len
    <3> DEFINE end == lo + len
    <3>1. end \in Nat /\ lo < Wrap /\ len < Wrap /\ end < Wrap
      BY <1>2, <2>4, <2>10
    <3> HIDE DEF end
    <3>2. lo % Wrap = lo /\ len % Wrap = len /\ end % Wrap = end
      BY <1>2, <2>4, <3>1, Remainder
    <3> QED
      BY <3>2 DEF end
  <2>7. lo + len >= lo /\ lo + len <= Len(ids)
    BY <1>4, <2>4
  <2>8. syns = SubSeq(ids, lo + 1, lo + len)
    <3>1. found # {}
      BY <2>1
    <3>2. ~(lo + len < lo) /\ ~(lo + len > Len(ids))
      BY <2>4, <2>7, <1>4
    <3> HIDE DEF ids
    <3>3. syns = IF found = {} THEN <<>>
                 ELSE IF lo + len < lo \/ lo + len > Len(table.ids) THEN OutOfRange
                 ELSE SubSeq(table.ids, lo + 1, lo + len)
      BY <2>2, <2>5, <2>6 DEF Synonyms, found
    <3> QED
      BY <3>1, <3>2, <3>3 DEF ids
  <2>9. SubSeq(ids, lo + 1, lo + len) = es[k].synonyms
    <3> DEFINE s == es[k].synonyms
               t == SubSeq(ids, lo + 1, lo + len)
    <3>1. t \in Seq(Nat) /\ Len(t) = len /\ \A i \in 1..len : t[i] = ids[lo + i]
      BY <1>4, <2>4, <2>7, SubSeqProperties
    <3>2. s \in Seq(Nat) /\ Len(s) = len
      BY <2>3 DEF len
    <3>3. \A i \in 1..len : t[i] = s[i]
      BY <2>5, <3>1
    <3> HIDE DEF s, t, ids
    <3> QED
      BY <3>1, <3>2, <3>3, SeqEqual DEF s, t
  <2> QED
    BY <2>3, <2>8, <2>9
<1> HIDE DEF syns, found
<1> QED
  BY <1>6, <1>7, <1>8 DEF syns, table

-----------------------------------------------------------------------------
(* Calls that the caller's own goroutine answers *)

\* From the call to the next one, the answer is the kernel's or the table's.
CallerInv ==
  /\ phase = "idle" => job = NoJob
  /\ "tier" \in DOMAIN job =>
       /\ job \in Bitsets /\ phase = "returned"
       /\ answer = ExtractSet(job.words, job.tier)
       /\ total = SimdAndPopcount(job.words, job.with, job.tier)
  /\ "entries" \in DOMAIN job =>
       LET syns == Synonyms(NewSynonymStorage(job.entries), job.term)
       IN  /\ job \in Tables /\ answer = syns
           /\ phase = IF syns = OutOfRange THEN "panic" ELSE "returned"

LEMMA JobsDiffer ==
  /\ \A j \in Searches : "tier" \notin DOMAIN j /\ "entries" \notin DOMAIN j
  /\ \A c \in Counts : "tier" \notin DOMAIN c /\ "entries" \notin DOMAIN c
  /\ \A b \in Bitsets : "entries" \notin DOMAIN b
  /\ \A t \in Tables : "tier" \notin DOMAIN t
<1>1. \A j \in Searches : DOMAIN j = {"batch", "shard"}
  BY EnginesAssumption
<1>2. \A c \in Counts : DOMAIN c = {"universe", "shards", "a", "b"}
  BY EnginesAssumption
<1>3. \A b \in Bitsets : DOMAIN b = {"words", "with", "tier"}
  BY EnginesAssumption
<1>4. \A t \in Tables : DOMAIN t = {"entries", "term"}
  BY EnginesAssumption
<1> QED
  BY <1>1, <1>2, <1>3, <1>4

LEMMA InitCaller == Init => CallerInv
  BY DEF Init, CallerInv, NoJob

LEMMA StepCaller == CallerInv /\ SearchInv /\ MutexInv /\ [Next]_vars => CallerInv'
<1> SUFFICES ASSUME CallerInv, SearchInv, MutexInv, [Next]_vars PROVE CallerInv'
  OBVIOUS
<1>1. ASSUME NEW j \in Searches, NEW p \in Procs, Search(j, p) PROVE CallerInv'
  <2>1. job' = j /\ phase' \in {"returned", "search"}
    BY <1>1 DEF Search
  <2> QED
    BY <2>1, JobsDiffer DEF CallerInv
<1>2. ASSUME NEW c \in Counts, NEW p \in Procs, Count(c, p) PROVE CallerInv'
  <2>1. job' = c /\ phase' \in {"panic", "returned", "count"}
    BY <1>2 DEF Count
  <2> QED
    BY <2>1, JobsDiffer DEF CallerInv
<1>3. ASSUME NEW b \in Bitsets, Kernel(b) PROVE CallerInv'
  <2>1. /\ job' = b /\ phase' = "returned" /\ answer' = ExtractSet(b.words, b.tier)
        /\ total' = SimdAndPopcount(b.words, b.with, b.tier)
    BY <1>3 DEF Kernel
  <2> QED
    BY <2>1, JobsDiffer DEF CallerInv
<1>4. ASSUME NEW t \in Tables, LookUp(t) PROVE CallerInv'
  <2>1. /\ job' = t /\ answer' = Synonyms(NewSynonymStorage(t.entries), t.term)
        /\ phase' = IF answer' = OutOfRange THEN "panic" ELSE "returned"
    BY <1>4 DEF LookUp
  <2> QED
    BY <2>1, JobsDiffer DEF CallerInv
<1>5. ASSUME NEW w \in Worker, Step(w) PROVE CallerInv'
  <2>1. phase \in {"search", "count"}
    BY <1>5 DEF Step, Look, Found, CountShard, Lock, LoadTotal, StoreTotal, MutexInv
  <2>2. job' = job /\ phase' = phase
    BY <1>5 DEF Step, Look, Found, CountShard, Lock, LoadTotal, StoreTotal
  <2>3. job \in Searches \cup Counts
    BY <2>1 DEF SearchInv
  <2> QED
    BY <2>1, <2>2, <2>3, JobsDiffer DEF CallerInv
<1>6. CASE Wait
  <2>1. phase \in {"search", "count"} /\ phase' = "returned" /\ job' = job
    BY <1>6 DEF Wait
  <2>2. job \in Searches \cup Counts
    BY <2>1 DEF SearchInv
  <2> QED
    BY <2>1, <2>2, JobsDiffer DEF CallerInv
<1>7. CASE Again
  BY <1>7 DEF Again, CallerInv, NoJob
<1>8. CASE UNCHANGED vars
  BY <1>8 DEF vars, CallerInv
<1> QED
  BY <1>1, <1>2, <1>3, <1>4, <1>5, <1>6, <1>7, <1>8 DEF Next

\* A term's synonyms are those of its first entry whenever an offset can count the ids
\* up to the end of that entry; such a lookup never panics, nor does that of an
\* unknown term, however long the table is.
THEOREM SynonymsAreExact == Spec => []SynonymsExact
<1>1. CallerInv => SynonymsExact
  <2> SUFFICES ASSUME CallerInv, "entries" \in DOMAIN job
               PROVE  LET es == job.entries
                          own == {k \in DOMAIN es : es[k].term = job.term /\
                                                    \A i \in 1..k - 1 : es[i].term # job.term}
                      IN  /\ own = {} => phase = "returned" /\ answer = <<>>
                          /\ \A k \in own : Cardinality(Places(es, k)) < Wrap =>
                               phase = "returned" /\ answer = es[k].synonyms
    BY DEF SynonymsExact, Places
  <2> DEFINE es == job.entries
             syns == Synonyms(NewSynonymStorage(es), job.term)
             own == {k \in DOMAIN es : es[k].term = job.term /\
                                       \A i \in 1..k - 1 : es[i].term # job.term}
  <2>1. /\ job \in Tables /\ answer = syns
        /\ phase = IF syns = OutOfRange THEN "panic" ELSE "returned"
    BY DEF CallerInv
  <2>2. es \in Seq([term : Nat, synonyms : Seq(Nat)]) /\ job.term \in Nat
    <3>1. Id \subseteq Nat
      BY DEF Id
    <3>2. [term : Id, synonyms : Seq(Id)] \subseteq [term : Nat, synonyms : Seq(Nat)]
      <4>1. Seq(Id) \subseteq Seq(Nat)
        BY EnginesAssumption DEF Id
      <4> QED
        BY <3>1, <4>1
    <3> DEFINE A == [term : Id, synonyms : Seq(Id)]
               B == [term : Nat, synonyms : Seq(Nat)]
    <3>3. es \in Seq(A) /\ job.term \in Id
      BY <2>1, EnginesAssumption
    <3> HIDE DEF A, B
    <3>4. A \subseteq B
      BY <3>2 DEF A, B
    <3>5. es \in Seq(B)
      BY <3>3, <3>4
    <3> QED
      BY <3>1, <3>3, <3>5 DEF B
  <2> HIDE DEF es
  <2>3. /\ own = {} => syns = <<>>
        /\ \A k \in own : Cardinality(Places(es, k)) < Wrap =>
                            syns = es[k].synonyms /\ syns \in Seq(Nat)
    BY <2>2, SynonymsAreFirst DEF es
  <2>4. OutOfRange \notin Seq(Nat) /\ <<>> \in Seq(Nat)
    <3> SUFFICES ASSUME OutOfRange \in Seq(Nat) PROVE FALSE
      OBVIOUS
    <3>1. 1 \in 1..Len(OutOfRange) /\ OutOfRange[1] = -1
      BY DEF OutOfRange
    <3>2. OutOfRange[1] \in Nat
      BY <3>1, ElementOfSeq
    <3> QED
      BY <3>1, <3>2
  <2> HIDE DEF syns, own
  <2>5. /\ own = {} => phase = "returned" /\ answer = <<>>
        /\ \A k \in own : Cardinality(Places(es, k)) < Wrap =>
                            phase = "returned" /\ answer = es[k].synonyms
    BY <2>1, <2>3, <2>4
  <2> QED
    BY <2>5 DEF own, es
<1> QED
  BY InitMutex, StepMutex, InitSearch, StepSearch, InitCaller, StepCaller, <1>1, PTL DEF Spec

-----------------------------------------------------------------------------
(* The kernels: the bits of a bitset *)

\* Positions of word i, bit by bit.
Scan(words, i, f) ==
  /\ f \in [0..WordBits -> Seq(Nat)]
  /\ Positions(words, i) = f[WordBits]
  /\ f[0] = <<>>
  /\ \A k \in 1..WordBits :
       f[k] = IF k - 1 \in words[i] THEN Append(f[k - 1], (i - 1) * WordBits + k - 1) ELSE f[k - 1]

LEMMA PositionsEquation ==
  ASSUME NEW words, NEW i \in Nat \ {0}
  PROVE  \E f : Scan(words, i, f)
<1> DEFINE n == WordBits
           V == Seq(Nat)
           body(g) == [k \in 0..n |-> IF k = 0 THEN <<>> ELSE IF k - 1 \in words[i] THEN Append(g[k - 1], (i - 1) * WordBits + k - 1) ELSE g[k - 1]]
           next == [p \in (1..n) \X V |-> IF p[1] - 1 \in words[i] THEN Append(p[2], (i - 1) * WordBits + p[1] - 1) ELSE p[2]]
           f == CHOOSE f : f = body(f)
<1>1. n \in Nat /\ <<>> \in V /\ (i - 1) * WordBits \in Nat
  BY KernelAssumption
<1>2. Loop(n, V, <<>>, next)
  <2>1. next \in [(1..n) \X V -> V]
    <3> SUFFICES ASSUME NEW p \in (1..n) \X V PROVE Append(p[2], (i - 1) * WordBits + p[1] - 1) \in V
      OBVIOUS
    <3>1. (i - 1) * WordBits + p[1] - 1 \in Nat
      <4> DEFINE base == (i - 1) * WordBits
      <4>1. base \in Nat
        BY <1>1
      <4> HIDE DEF base
      <4>2. base + p[1] - 1 \in Nat
        BY <4>1
      <4> QED
        BY <4>2 DEF base
    <3> QED
      BY <3>1, AppendProperties
  <2> HIDE DEF next
  <2> QED
    BY <1>1, <2>1 DEF Loop
<1>3. PICK g \in [0..n -> V] : g = [k \in 0..n |-> IF k = 0 THEN <<>> ELSE next[<<k, g[k - 1]>>]]
  <2> HIDE DEF next
  <2>1. HasRounds(n, V, <<>>, next)
    BY <1>2, LoopSolution
  <2> QED
    BY <2>1 DEF HasRounds
<1>4. g = body(g)
  <2>1. \A k \in 0..n : k # 0 => k \in 1..n /\ k - 1 \in 0..n
    BY <1>1
  <2>2. \A k \in 0..n : k # 0 => next[<<k, g[k - 1]>>] = IF k - 1 \in words[i] THEN Append(g[k - 1], (i - 1) * WordBits + k - 1) ELSE g[k - 1]
    <3> HIDE DEF V, n
    <3> QED
      BY <2>1
  <2> HIDE DEF next, V, n
  <2> QED
    BY <1>3, <2>2
<1>5. f = body(f)
  <2> HIDE DEF body
  <2> QED
    BY <1>4
<1>6. Positions(words, i) = f[n]
  BY Zenon DEF Positions
<1> HIDE DEF f
<1>7. f[0] = <<>> /\ \A k \in 1..n : f[k] = IF k - 1 \in words[i] THEN Append(f[k - 1], (i - 1) * WordBits + k - 1) ELSE f[k - 1]
  <2>1. 0 \in 0..n /\ \A k \in 1..n : k \in 0..n /\ k # 0
    BY <1>1
  <2> HIDE DEF n
  <2>2. f = [k \in 0..n |-> IF k = 0 THEN <<>> ELSE IF k - 1 \in words[i] THEN Append(f[k - 1], (i - 1) * WordBits + k - 1) ELSE f[k - 1]]
    BY <1>5
  <2> QED
    BY <2>1, <2>2
<1>8. f \in [0..n -> V]
  <2>1. f = [k \in 0..n |-> f[k]]
    BY <1>5
  <2>2. \A k \in 1..n : f[k - 1] \in V => f[k] = next[<<k, f[k - 1]>>]
    <3> HIDE DEF V, n
    <3> QED
      BY <1>7
  <2> HIDE DEF V, n, next
  <2>3. Rounds(f, n, V, <<>>, next)
    BY <1>7, <2>1, <2>2 DEF Rounds
  <2> QED
    BY <1>2, <2>3, LoopType
<1> QED
  BY <1>6, <1>7, <1>8 DEF Scan

Bitset == Seq(SUBSET (0..WordBits - 1))

\* The positions of the bits of word i, and of the words a + 1 to b.
Block(words, i) == {(i - 1) * WordBits + p : p \in words[i]}
BitsOf(words, a, b) == UNION {Block(words, i) : i \in a + 1..b}

\* A list of exactly these positions, in increasing order.
Lists(words, s, a, b) ==
  /\ a \in Nat /\ b \in Nat /\ a <= b /\ b <= Len(words)
  /\ s \in AscendingSeqs /\ Elems(s) = BitsOf(words, a, b)

LEMMA WordFacts ==
  ASSUME NEW words \in Bitset, NEW i \in 1..Len(words)
  PROVE  /\ Len(words) \in Nat /\ i \in Nat \ {0} /\ WordBits \in Nat \ {0}
         /\ (i - 1) * WordBits \in Nat /\ i * WordBits = (i - 1) * WordBits + WordBits
         /\ words[i] \subseteq 0..WordBits - 1
         /\ \A x \in Block(words, i) : x \in Nat /\ (i - 1) * WordBits <= x /\ x < i * WordBits
<1>1. Len(words) \in Nat /\ i \in Nat \ {0} /\ WordBits \in Nat \ {0}
  BY LenProperties, KernelAssumption DEF Bitset
<1>2. (i - 1) * WordBits \in Nat /\ i * WordBits = (i - 1) * WordBits + WordBits
  BY <1>1
<1>3. words[i] \subseteq 0..WordBits - 1
  <2>1. words[i] \in SUBSET (0..WordBits - 1)
    BY ElementOfSeq DEF Bitset
  <2> QED
    BY <2>1
<1>4. ASSUME NEW x \in Block(words, i)
      PROVE  x \in Nat /\ (i - 1) * WordBits <= x /\ x < i * WordBits
  <2>1. PICK p \in words[i] : x = (i - 1) * WordBits + p
    BY DEF Block
  <2> DEFINE lo == (i - 1) * WordBits
             hi == i * WordBits
  <2>2. p \in 0..WordBits - 1 /\ x = lo + p /\ lo \in Nat /\ hi = lo + WordBits
    BY <1>2, <1>3, <2>1
  <2> HIDE DEF lo, hi
  <2>3. x \in Nat /\ lo <= x /\ x < hi
    BY <1>1, <2>2
  <2> QED
    BY <2>3 DEF lo, hi
<1> QED
  BY <1>1, <1>2, <1>3, <1>4

\* The bits of later words are later.
LEMMA LaterWords ==
  ASSUME NEW words \in Bitset, NEW a \in Nat, NEW b \in Nat, a <= b, b <= Len(words),
         NEW x \in BitsOf(words, a, b)
  PROVE  x \in Nat /\ a * WordBits <= x /\ x < b * WordBits
<1>1. PICK i \in a + 1..b : x \in Block(words, i)
  BY DEF BitsOf
<1>2. i \in 1..Len(words) /\ Len(words) \in Nat /\ i \in Nat
  BY LenProperties DEF Bitset
<1>3. /\ x \in Nat /\ (i - 1) * WordBits <= x /\ x < i * WordBits
      /\ WordBits \in Nat \ {0} /\ (i - 1) * WordBits \in Nat
      /\ i * WordBits = (i - 1) * WordBits + WordBits
  BY <1>1, <1>2, WordFacts
<1>4. a * WordBits <= (i - 1) * WordBits
  <2> DEFINE d == (i - 1) - a
  <2>1. d \in Nat /\ i - 1 = a + d
    BY <1>1
  <2> HIDE DEF d
  <2>2. (a + d) * WordBits = a * WordBits + d * WordBits /\ d * WordBits \in Nat /\ a * WordBits \in Nat
    BY <1>3, <2>1
  <2> QED
    BY <2>1, <2>2
<1>5. i * WordBits <= b * WordBits
  <2> DEFINE d == b - i
  <2>1. d \in Nat /\ b = i + d
    BY <1>1
  <2> HIDE DEF d
  <2>2. (i + d) * WordBits = i * WordBits + d * WordBits /\ d * WordBits \in Nat /\ i * WordBits \in Nat
    BY <1>2, <1>3, <2>1
  <2> QED
    BY <2>1, <2>2
<1>6. a * WordBits \in Nat /\ b * WordBits \in Nat /\ i * WordBits \in Nat
  BY <1>2, <1>3
<1> DEFINE p == a * WordBits
           q == (i - 1) * WordBits
           r == i * WordBits
           t == b * WordBits
<1>7. /\ p \in Nat /\ q \in Nat /\ r \in Nat /\ t \in Nat /\ x \in Nat
      /\ p <= q /\ q <= x /\ x < r /\ r <= t
  BY <1>3, <1>4, <1>5, <1>6
<1> HIDE DEF p, q, r, t
<1>8. p <= x /\ x < t
  BY <1>7
<1> QED
  BY <1>7, <1>8 DEF p, t

\* Two increasing lists, the second above the first.
LEMMA AscendingConcat ==
  ASSUME NEW s \in AscendingSeqs, NEW t \in AscendingSeqs,
         \A x \in Elems(s), y \in Elems(t) : x < y
  PROVE  s \o t \in AscendingSeqs /\ Elems(s \o t) = Elems(s) \cup Elems(t)
<1> DEFINE u == s \o t
           m == Len(s)
           n == Len(t)
<1>1. s \in Seq(Nat) /\ t \in Seq(Nat) /\ Ascending(s) /\ Ascending(t)
  BY DEF AscendingSeqs
<1>2. u \in Seq(Nat) /\ Elems(u) = Elems(s) \cup Elems(t)
  BY <1>1, ElemsConcat
<1>3. /\ m \in Nat /\ n \in Nat
      /\ \A i \in 1..m : s[i] \in Elems(s) /\ s[i] \in Nat
      /\ \A i \in 1..n : t[i] \in Elems(t) /\ t[i] \in Nat
  BY <1>1, ElemsFacts
<1>4. Len(u) = m + n /\ \A i \in 1..m + n : u[i] = IF i <= m THEN s[i] ELSE t[i - m]
  BY <1>1, ConcatProperties
<1> HIDE DEF u, m, n
<1>5. Ascending(u)
  <2> SUFFICES ASSUME NEW i \in 1..m + n, NEW j \in 1..m + n, i < j PROVE u[i] < u[j]
    BY <1>4 DEF Ascending
  <2>1. u[i] = (IF i <= m THEN s[i] ELSE t[i - m]) /\ u[j] = IF j <= m THEN s[j] ELSE t[j - m]
    BY <1>4
  <2>2. CASE j <= m
    <3>1. i \in 1..m /\ j \in 1..m
      BY <1>3, <2>2
    <3> QED
      BY <1>1, <2>1, <2>2, <3>1 DEF Ascending, m
  <2>3. CASE i <= m /\ ~(j <= m)
    <3>1. i \in 1..m /\ j - m \in 1..n
      BY <1>3, <2>3
    <3> QED
      BY <1>3, <2>1, <2>3, <3>1
  <2>4. CASE ~(i <= m)
    <3>1. i - m \in 1..n /\ j - m \in 1..n /\ i - m < j - m /\ ~(j <= m)
      BY <1>3, <2>4
    <3> QED
      BY <1>1, <2>1, <2>4, <3>1 DEF Ascending, n
  <2> QED
    BY <2>2, <2>3, <2>4
<1> QED
  BY <1>2, <1>5 DEF AscendingSeqs, u

LEMMA JoinLists ==
  ASSUME NEW words \in Bitset, NEW s, NEW t, NEW a, NEW b, NEW c,
         Lists(words, s, a, b), Lists(words, t, b, c)
  PROVE  Lists(words, s \o t, a, c)
<1>1. /\ a \in Nat /\ b \in Nat /\ c \in Nat /\ a <= b /\ b <= c /\ c <= Len(words)
      /\ b <= Len(words) /\ a <= c
      /\ s \in AscendingSeqs /\ t \in AscendingSeqs
      /\ Elems(s) = BitsOf(words, a, b) /\ Elems(t) = BitsOf(words, b, c)
  BY DEF Lists
<1>2. \A x \in Elems(s), y \in Elems(t) : x < y
  <2> SUFFICES ASSUME NEW x \in Elems(s), NEW y \in Elems(t) PROVE x < y
    OBVIOUS
  <2> DEFINE m == b * WordBits
  <2>1. x \in Nat /\ x < m
    BY <1>1, LaterWords
  <2>2. y \in Nat /\ m <= y
    BY <1>1, LaterWords
  <2>3. m \in Nat
    BY <1>1, KernelAssumption
  <2> HIDE DEF m
  <2> QED
    BY <2>1, <2>2, <2>3
<1>3. BitsOf(words, a, c) = BitsOf(words, a, b) \cup BitsOf(words, b, c)
  <2>1. a + 1..c = (a + 1..b) \cup (b + 1..c)
    BY <1>1
  <2> QED
    BY <2>1 DEF BitsOf
<1>4. s \o t \in AscendingSeqs /\ Elems(s \o t) = Elems(s) \cup Elems(t)
  BY <1>1, <1>2, AscendingConcat
<1> QED
  BY <1>1, <1>3, <1>4 DEF Lists

LEMMA ListsNothing ==
  ASSUME NEW words \in Bitset, NEW a \in Nat, a <= Len(words)
  PROVE  Lists(words, <<>>, a, a)
<1>1. BitsOf(words, a, a) = {}
  <2>1. a + 1..a = {}
    OBVIOUS
  <2> QED
    BY <2>1 DEF BitsOf
<1>2. <<>> \in Seq(Nat) /\ Len(<<>>) = 0
  OBVIOUS
<1>3. Elems(<<>>) = {} /\ Ascending(<<>>)
  BY <1>2 DEF Elems, Ascending
<1> QED
  BY <1>1, <1>2, <1>3 DEF Lists, AscendingSeqs

\* Lists of consecutive words, one after the other.
LEMMA ConcatLists ==
  ASSUME NEW words \in Bitset, NEW n \in Nat, NEW ss, NEW c \in [0..n -> Nat],
         ss = [k \in 1..n |-> ss[k]], c[0] <= Len(words),
         \A k \in 1..n : Lists(words, ss[k], c[k - 1], c[k])
  PROVE  Lists(words, Concat(ss), c[0], c[n])
<1>1. ss \in Seq(Seq(Nat)) /\ Len(ss) = n
  <2>1. \A k \in 1..n : ss[k] \in Seq(Nat)
    BY DEF Lists, AscendingSeqs
  <2>2. ss \in [1..n -> Seq(Nat)]
    BY <2>1
  <2> QED
    BY <2>2, FunctionIsSeq
<1>2. PICK f \in [0..n -> Seq(Nat)] :
        /\ Concat(ss) = f[n]
        /\ f[0] = <<>>
        /\ \A k \in 1..n : f[k] = f[k - 1] \o ss[k]
  <2>1. PICK f : Joined(Nat, ss, f)
    BY <1>1, ConcatJoins
  <2> QED
    BY <1>1, <2>1 DEF Joined
<1> DEFINE S == {k \in 0..n : Lists(words, f[k], c[0], c[k])}
<1>3. 0 \in S
  <2>1. 0 \in 0..n /\ c[0] \in Nat
    OBVIOUS
  <2>2. Lists(words, f[0], c[0], c[0])
    BY <1>2, <2>1, ListsNothing
  <2> QED
    BY <2>1, <2>2
<1>4. ASSUME NEW k \in 1..n, k - 1 \in S PROVE k \in S
  <2>1. Lists(words, f[k - 1], c[0], c[k - 1]) /\ k \in 0..n
    BY <1>4
  <2>2. Lists(words, f[k - 1] \o ss[k], c[0], c[k])
    BY <2>1, JoinLists
  <2> QED
    BY <1>2, <2>1, <2>2
<1>5. n \in S
  <2>1. \A k \in 0..n : k \in S
    <3> HIDE DEF S
    <3> QED
      BY <1>3, <1>4, LoopInvariant
  <2> QED
    BY <2>1
<1> QED
  BY <1>2, <1>5

LEMMA PositionsAreBits ==
  ASSUME NEW words \in Bitset, NEW i \in 1..Len(words)
  PROVE  Lists(words, Positions(words, i), i - 1, i)
<1> DEFINE n == WordBits
           base == (i - 1) * WordBits
           W == words[i]
<1>1. /\ Len(words) \in Nat /\ i \in Nat \ {0} /\ n \in Nat \ {0}
      /\ base \in Nat /\ W \subseteq 0..n - 1
  BY WordFacts
<1>2. PICK f \in [0..n -> Seq(Nat)] :
        /\ Positions(words, i) = f[n]
        /\ f[0] = <<>>
        /\ \A k \in 1..n : f[k] = IF k - 1 \in W THEN Append(f[k - 1], base + k - 1) ELSE f[k - 1]
  <2>1. \E f : Scan(words, i, f)
    BY <1>1, PositionsEquation
  <2> QED
    BY <2>1 DEF Scan
<1>3. Block(words, i) = {base + p : p \in W}
  BY DEF Block
<1>10. \A q \in W : q \in Nat /\ q < n
  BY <1>1
<1> HIDE DEF n, base, W
<1> DEFINE LowBits(k) == {base + p : p \in {q \in W : q < k}}
           S == {k \in 0..n : f[k] \in AscendingSeqs /\ Elems(f[k]) = LowBits(k)}
<1>4. 0 \in S
  <2>1. LowBits(0) = {}
    BY <1>1
  <2>2. <<>> \in Seq(Nat) /\ Len(<<>>) = 0
    OBVIOUS
  <2>3. Elems(<<>>) = {} /\ <<>> \in AscendingSeqs
    BY <2>2 DEF Elems, Ascending, AscendingSeqs
  <2>4. 0 \in 0..n
    BY <1>1
  <2> HIDE DEF LowBits
  <2> QED
    BY <1>2, <2>1, <2>3, <2>4
<1>5. ASSUME NEW k \in 1..n, k - 1 \in S PROVE k \in S
  <2>1. k \in 0..n /\ k \in Nat /\ f[k - 1] \in AscendingSeqs /\ Elems(f[k - 1]) = LowBits(k - 1)
    <3>1. k \in 0..n /\ k \in Nat
      BY <1>1
    <3>2. f[k - 1] \in AscendingSeqs /\ Elems(f[k - 1]) = LowBits(k - 1)
      <4> HIDE DEF LowBits
      <4> QED
        BY <1>5
    <3> QED
      BY <3>1, <3>2
  <2>2. CASE k - 1 \notin W
    <3>1. LowBits(k) = LowBits(k - 1)
      <4>1. \A q \in W : q < k <=> q < k - 1
        BY <1>10, <2>1, <2>2
      <4> QED
        BY <4>1
    <3>2. f[k] = f[k - 1]
      BY <1>2, <2>2
    <3> HIDE DEF LowBits
    <3> QED
      BY <2>1, <3>1, <3>2
  <2>3. CASE k - 1 \in W
    <3> DEFINE x == base + k - 1
               t == <<x>>
    <3>1. LowBits(k) = LowBits(k - 1) \cup {x}
      <4>1. {q \in W : q < k} = {q \in W : q < k - 1} \cup {k - 1}
        <5>1. ASSUME NEW q \in W PROVE q < k <=> (q < k - 1 \/ q = k - 1)
          <6>1. q \in Nat
            BY <1>10
          <6> QED
            BY <2>1, <6>1
        <5> QED
          BY <2>1, <2>3, <5>1
      <4>2. base + (k - 1) = x
        BY <1>1, <2>1
      <4> HIDE DEF x
      <4> QED
        BY <4>1, <4>2
    <3>2. \A y \in LowBits(k - 1) : y < x
      BY <1>1, <2>1
    <3>3. x \in Nat
      BY <1>1, <2>1
    <3>4. f[k] = f[k - 1] \o t
      <4>1. f[k] = Append(f[k - 1], x)
        BY <1>2, <2>3
      <4>2. f[k - 1] \in Seq(Nat)
        BY <2>1 DEF AscendingSeqs
      <4> HIDE DEF x
      <4> QED
        BY <3>3, <4>1, <4>2, AppendIsConcat
    <3> HIDE DEF x, Bits
    <3>5. t \in AscendingSeqs /\ Elems(t) = {x}
      <4>1. t \in Seq(Nat) /\ Len(t) = 1
        BY <3>3
      <4> QED
        BY <4>1 DEF AscendingSeqs, Ascending, Elems
    <3> HIDE DEF t
    <3>6. f[k] \in AscendingSeqs /\ Elems(f[k]) = Elems(f[k - 1]) \cup Elems(t)
      <4>1. \A y \in Elems(f[k - 1]), z \in Elems(t) : y < z
        BY <2>1, <3>2, <3>5
      <4> QED
        BY <2>1, <3>4, <3>5, <4>1, AscendingConcat
    <3> QED
      BY <2>1, <3>1, <3>5, <3>6
  <2> QED
    BY <2>2, <2>3
<1>6. n \in S
  <2>1. \A k \in 0..n : k \in S
    <3> HIDE DEF S
    <3> QED
      BY <1>1, <1>4, <1>5, LoopInvariant
  <2> QED
    BY <1>1, <2>1
<1>7. LowBits(n) = Block(words, i)
  <2>1. {q \in W : q < n} = W
    BY <1>10
  <2> QED
    BY <1>3, <2>1
<1>8. BitsOf(words, i - 1, i) = Block(words, i)
  <2>1. (i - 1) + 1..i = {i}
    BY <1>1
  <2> QED
    BY <2>1 DEF BitsOf
<1>9. Positions(words, i) \in AscendingSeqs /\ Elems(Positions(words, i)) = BitsOf(words, i - 1, i)
  <2> HIDE DEF LowBits
  <2> QED
    BY <1>2, <1>6, <1>7, <1>8
<1> QED
  BY <1>1, <1>9 DEF Lists

\* extract_scalar, from word lo to word hi.
LEMMA ExtractLists ==
  ASSUME NEW words \in Bitset, NEW lo \in Nat \ {0}, NEW hi \in Nat,
         lo - 1 <= hi, hi <= Len(words)
  PROVE  Lists(words, Extract(words, lo, hi), lo - 1, hi)
<1> DEFINE n == hi - lo + 1
           ss == [k \in 1..n |-> Positions(words, lo + k - 1)]
           c == [k \in 0..n |-> lo - 1 + k]
<1>1. n \in Nat /\ Len(words) \in Nat /\ lo - 1 + n = hi /\ lo - 1 \in Nat
  BY LenProperties DEF Bitset
<1>2. c \in [0..n -> Nat] /\ c[0] = lo - 1 /\ c[n] = hi
  BY <1>1
<1>3. ASSUME NEW k \in 1..n PROVE Lists(words, ss[k], c[k - 1], c[k])
  <2> DEFINE i == lo + k - 1
  <2>1. i \in 1..Len(words)
    BY <1>1
  <2>2. c[k - 1] = i - 1 /\ c[k] = i
    BY <1>1
  <2>3. ss[k] = Positions(words, i)
    OBVIOUS
  <2> HIDE DEF i, c, ss, n
  <2> QED
    BY <2>1, <2>2, <2>3, PositionsAreBits
<1>4. Lists(words, Concat(ss), c[0], c[n])
  <2>1. ss = [k \in 1..n |-> ss[k]]
    OBVIOUS
  <2>2. c[0] <= Len(words)
    BY <1>1, <1>2
  <2> HIDE DEF ss, c, n
  <2> QED
    BY <1>1, <1>2, <1>3, <2>1, <2>2, ConcatLists
<1>5. Extract(words, lo, hi) = Concat(ss)
  BY DEF Extract
<1> HIDE DEF ss, c, n
<1> QED
  BY <1>2, <1>4, <1>5

\* The lanes of a vector that have no bit list nothing.
LEMMA VectorLists ==
  ASSUME NEW words \in Bitset, NEW i \in Nat \ {0}, i - 1 + Lanes <= Len(words)
  PROVE  Lists(words, ExtractVector(words, i), i - 1, i - 1 + Lanes)
<1> DEFINE n == Lanes
           mask == {l \in 1..n : words[i + l - 1] # {}}
           ss == [l \in 1..n |-> IF l \in mask THEN Positions(words, i + l - 1) ELSE <<>>]
           c == [l \in 0..n |-> i - 1 + l]
<1>1. n \in Nat /\ Len(words) \in Nat /\ i - 1 \in Nat
  BY LenProperties, KernelAssumption DEF Bitset
<1>2. c \in [0..n -> Nat] /\ c[0] = i - 1 /\ c[n] = i - 1 + n
  BY <1>1
<1>3. ASSUME NEW l \in 1..n PROVE Lists(words, ss[l], c[l - 1], c[l])
  <2> DEFINE k == i + l - 1
  <2>1. k \in 1..Len(words)
    BY <1>1
  <2>2. c[l - 1] = k - 1 /\ c[l] = k
    BY <1>1
  <2>3. ss[l] = IF words[k] # {} THEN Positions(words, k) ELSE <<>>
    OBVIOUS
  <2> HIDE DEF k, c, ss, n
  <2>4. CASE words[k] # {}
    BY <2>1, <2>2, <2>3, <2>4, PositionsAreBits
  <2>5. CASE words[k] = {}
    <3>1. Lists(words, <<>>, k - 1, k - 1)
      <4>1. k - 1 \in Nat /\ k - 1 <= Len(words)
        BY <1>1, <2>1
      <4> QED
        BY <4>1, ListsNothing
    <3>2. BitsOf(words, k - 1, k) = {}
      <4>1. (k - 1) + 1..k = {k}
        BY <2>1
      <4>2. Block(words, k) = {}
        BY <2>5 DEF Block
      <4> QED
        BY <4>1, <4>2 DEF BitsOf
    <3>3. BitsOf(words, k - 1, k - 1) = {} /\ <<>> \in AscendingSeqs /\ Elems(<<>>) = {}
      <4>1. Elems(<<>>) = {}
        BY DEF Elems
      <4> QED
        BY <3>1, <4>1 DEF Lists
    <3>4. Lists(words, <<>>, k - 1, k)
      <4>1. k \in Nat /\ k - 1 \in Nat /\ k - 1 <= k /\ k <= Len(words)
        BY <1>1, <2>1
      <4>2. Elems(<<>>) = BitsOf(words, k - 1, k) /\ <<>> \in AscendingSeqs
        BY <3>2, <3>3
      <4> QED
        BY <4>1, <4>2 DEF Lists
    <3> QED
      BY <2>2, <2>3, <2>5, <3>4
  <2> QED
    BY <2>4, <2>5
<1>4. Lists(words, Concat(ss), c[0], c[n])
  <2>1. ss = [l \in 1..n |-> ss[l]]
    OBVIOUS
  <2>2. c[0] <= Len(words)
    BY <1>1, <1>2
  <2> HIDE DEF ss, c, n
  <2> QED
    BY <1>1, <1>2, <1>3, <2>1, <2>2, ConcatLists
<1>5. ExtractVector(words, i) = Concat(ss)
  BY DEF ExtractVector
<1> HIDE DEF ss, c
<1> QED
  BY <1>2, <1>4, <1>5

\* The words of whole vectors, and the rest.
LEMMA WholeFacts ==
  ASSUME NEW n \in Nat
  PROVE  /\ Lanes \in Nat \ {0} /\ n \div Lanes \in Nat
         /\ Whole(n) \in Nat /\ Whole(n) <= n
         /\ \A v \in 1..n \div Lanes :
              /\ (v - 1) * Lanes \in Nat /\ (v - 1) * Lanes + Lanes = v * Lanes
              /\ v * Lanes <= Whole(n)
<1> DEFINE m == n \div Lanes
<1>1. Lanes \in Nat \ {0}
  BY KernelAssumption
<1>2. m \in Nat /\ Lanes * m <= n
  BY <1>1
<1> HIDE DEF m
<1>3. Whole(n) = m * Lanes /\ m * Lanes = Lanes * m /\ m * Lanes \in Nat
  BY <1>1, <1>2 DEF Whole, m
<1>4. ASSUME NEW v \in 1..m
      PROVE  /\ (v - 1) * Lanes \in Nat /\ (v - 1) * Lanes + Lanes = v * Lanes
             /\ v * Lanes <= m * Lanes
  <2>1. v \in Nat /\ v - 1 \in Nat /\ v * Lanes \in Nat
    BY <1>1, <1>2
  <2>2. (v - 1) * Lanes \in Nat /\ (v - 1) * Lanes + Lanes = v * Lanes
    BY <1>1, <2>1
  <2>3. v * Lanes <= m * Lanes
    <3> DEFINE d == m - v
    <3>1. d \in Nat /\ m = v + d
      BY <1>2
    <3> HIDE DEF d
    <3>2. (v + d) * Lanes = v * Lanes + d * Lanes /\ d * Lanes \in Nat
      BY <1>1, <2>1, <3>1
    <3> QED
      BY <2>1, <3>1, <3>2
  <2> QED
    BY <2>2, <2>3
<1>5. Whole(n) \in Nat /\ Whole(n) <= n
  <2> DEFINE a == Lanes * m
  <2>1. a \in Nat /\ a <= n /\ Whole(n) = a
    BY <1>2, <1>3
  <2> HIDE DEF a
  <2> QED
    BY <2>1
<1>6. \A v \in 1..m : /\ (v - 1) * Lanes \in Nat /\ (v - 1) * Lanes + Lanes = v * Lanes
                      /\ v * Lanes <= Whole(n)
  BY <1>3, <1>4
<1> QED
  BY <1>1, <1>2, <1>5, <1>6 DEF m

LEMMA VectorsList ==
  ASSUME NEW words \in Bitset
  PROVE  Lists(words, Vectors(words), 0, Whole(Len(words)))
<1> DEFINE N == Len(words)
           n == N \div Lanes
           ss == [v \in 1..n |-> ExtractVector(words, (v - 1) * Lanes + 1)]
           c == [v \in 0..n |-> v * Lanes]
<1>1. N \in Nat
  BY LenProperties DEF Bitset
<1>2. /\ Lanes \in Nat \ {0} /\ n \in Nat /\ Whole(N) \in Nat /\ Whole(N) <= N
      /\ \A v \in 1..n : /\ (v - 1) * Lanes \in Nat /\ (v - 1) * Lanes + Lanes = v * Lanes
                         /\ v * Lanes <= Whole(N)
  BY <1>1, WholeFacts
<1>3. c \in [0..n -> Nat] /\ c[0] = 0 /\ c[n] = Whole(N)
  <2>1. \A v \in 0..n : v * Lanes \in Nat
    BY <1>2
  <2>2. 0 * Lanes = 0 /\ n * Lanes = Whole(N)
    BY <1>2 DEF Whole
  <2> HIDE DEF n
  <2>3. 0 \in 0..n /\ n \in 0..n
    BY <1>2
  <2> QED
    BY <2>1, <2>2, <2>3
<1>4. ASSUME NEW v \in 1..n PROVE Lists(words, ss[v], c[v - 1], c[v])
  <2> DEFINE a == (v - 1) * Lanes
             b == v * Lanes
             i == a + 1
  <2>1. a \in Nat /\ a + Lanes = b /\ b <= N
    <3>1. a \in Nat /\ a + Lanes = b /\ b <= Whole(N)
      BY <1>2
    <3> HIDE DEF a, b, N
    <3> QED
      BY <1>1, <1>2, <3>1
  <2>2. c[v - 1] = a /\ c[v] = b
    <3>1. v - 1 \in 0..n /\ v \in 0..n
      <4> HIDE DEF n
      <4> QED
        BY <1>2
    <3> HIDE DEF n
    <3> QED
      BY <3>1
  <2>3. ss[v] = ExtractVector(words, i)
    OBVIOUS
  <2> HIDE DEF a, b, c, ss, n
  <2>4. i \in Nat \ {0} /\ i - 1 = a /\ i - 1 + Lanes = b /\ i - 1 + Lanes <= N
    BY <1>2, <2>1
  <2> HIDE DEF i
  <2>5. Lists(words, ExtractVector(words, i), i - 1, i - 1 + Lanes)
    BY <2>4, VectorLists DEF N
  <2> QED
    BY <2>2, <2>3, <2>4, <2>5
<1>5. Lists(words, Concat(ss), c[0], c[n])
  <2>1. ss = [v \in 1..n |-> ss[v]]
    OBVIOUS
  <2>2. c[0] <= N
    BY <1>1, <1>3
  <2> HIDE DEF ss, c, n
  <2> QED
    BY <1>2, <1>3, <1>4, <2>1, <2>2, ConcatLists DEF N
<1>6. Vectors(words) = Concat(ss)
  BY DEF Vectors
<1> HIDE DEF ss, c, n
<1> QED
  BY <1>3, <1>5, <1>6 DEF N

\* Both ways of the extraction list every bit.
LEMMA ExtractSetLists ==
  ASSUME NEW words \in Bitset, NEW tier
  PROVE  Lists(words, ExtractSet(words, tier), 0, Len(words))
<1> DEFINE N == Len(words)
           W == Whole(N)
<1>1. N \in Nat
  BY LenProperties DEF Bitset
<1>2. W \in Nat /\ W <= N
  BY <1>1, WholeFacts
<1>3. Lists(words, Vectors(words), 0, W)
  BY VectorsList
<1> HIDE DEF W
<1>4. Lists(words, Extract(words, W + 1, N), W, N)
  <2>1. W + 1 \in Nat \ {0} /\ (W + 1) - 1 = W
    BY <1>2
  <2>2. Lists(words, Extract(words, W + 1, N), (W + 1) - 1, N)
    BY <1>1, <1>2, <2>1, ExtractLists
  <2> QED
    BY <2>1, <2>2
<1>5. Lists(words, Vectors(words) \o Extract(words, W + 1, N), 0, N)
  BY <1>3, <1>4, JoinLists
<1>6. Lists(words, Extract(words, 1, N), 0, N)
  <2>1. 1 \in Nat \ {0} /\ 1 - 1 = 0 /\ 1 - 1 <= N
    BY <1>1
  <2>2. Lists(words, Extract(words, 1, N), 1 - 1, N)
    BY <1>1, <2>1, ExtractLists
  <2> QED
    BY <2>1, <2>2
<1> QED
  BY <1>5, <1>6 DEF ExtractSet, W

-----------------------------------------------------------------------------
(* The kernels: the population count of an AND *)

LEMMA AddUpSizes ==
  ASSUME NEW n \in Nat, NEW P, \A k \in 1..n : IsFiniteSet(P[k]),
         \A j, k \in 1..n : j # k => P[j] \cap P[k] = {}
  PROVE  /\ IsFiniteSet(UNION {P[k] : k \in 1..n})
         /\ AddUp([k \in 1..n |-> Cardinality(P[k])]) = Cardinality(UNION {P[k] : k \in 1..n})
<1> DEFINE sizes == [k \in 1..n |-> Cardinality(P[k])]
<1>1. sizes \in Seq(Nat) /\ Len(sizes) = n
  <2>1. sizes \in [1..n -> Nat]
    BY FS_CardinalityType
  <2> HIDE DEF sizes
  <2> QED
    BY <2>1, FunctionIsSeq
<1>2. PICK sum \in [0..n -> Nat] :
        /\ AddUp(sizes) = sum[n]
        /\ sum[0] = 0
        /\ \A k \in 1..n : sum[k] = sum[k - 1] + sizes[k]
  <2> HIDE DEF sizes
  <2> QED
    BY <1>1, AddUpEquation
<1>3. SumOfSizes(n, P, sum)
  BY <1>2 DEF SumOfSizes
<1> HIDE DEF sizes
<1>4. AddUp(sizes) = Cardinality(UNION {P[k] : k \in 1..n}) /\ IsFiniteSet(UNION {P[k] : k \in 1..n})
  BY <1>2, <1>3, SumIsCount
<1> QED
  BY <1>4 DEF sizes

\* The bits that word i of two bitsets share.
Common(a, b, i) == Block(a, i) \cap Block(b, i)

LEMMA CommonFacts ==
  ASSUME NEW a \in Bitset, NEW b \in Bitset,
         NEW i \in 1..Len(a), i \in 1..Len(b)
  PROVE  /\ IsFiniteSet(Common(a, b, i))
         /\ Cardinality(Common(a, b, i)) = Cardinality(a[i] \cap b[i])
<1> DEFINE base == (i - 1) * WordBits
           C == a[i] \cap b[i]
           f == [p \in C |-> base + p]
<1>1. base \in Nat /\ WordBits \in Nat /\ a[i] \subseteq 0..WordBits - 1 /\ b[i] \subseteq 0..WordBits - 1
  BY WordFacts
<1>2. Block(a, i) = {base + p : p \in a[i]} /\ Block(b, i) = {base + p : p \in b[i]}
  BY DEF Block
<1> HIDE DEF base
<1>3. IsFiniteSet(C)
  <2>1. IsFiniteSet(0..WordBits - 1)
    BY <1>1, FS_Interval
  <2> QED
    BY <1>1, <2>1, FS_Subset
<1>4. \A p \in a[i] \cup b[i] : p \in Nat
  BY <1>1
<1>5. f \in Bijection(C, Common(a, b, i))
  <2>1. f \in [C -> Common(a, b, i)]
    BY <1>2 DEF Common
  <2>2. \A p, q \in C : f[p] = f[q] => p = q
    BY <1>1, <1>4
  <2>3. \A x \in Common(a, b, i) : \E p \in C : f[p] = x
    <3> SUFFICES ASSUME NEW x \in Common(a, b, i) PROVE \E p \in C : f[p] = x
      OBVIOUS
    <3>1. PICK p \in a[i], q \in b[i] : x = base + p /\ x = base + q
      BY <1>2 DEF Common
    <3>2. p = q
      BY <1>1, <1>4, <3>1
    <3>3. p \in C /\ f[p] = x
      BY <3>1, <3>2
    <3> QED
      BY <3>3
  <2> HIDE DEF f, C
  <2> QED
    BY <2>1, <2>2, <2>3, Fun_IsBij
<1>6. ExistsBijection(C, Common(a, b, i))
  <2> HIDE DEF f, C
  <2> QED
    BY <1>5 DEF ExistsBijection
<1> HIDE DEF C
<1>7. IsFiniteSet(Common(a, b, i)) /\ Cardinality(Common(a, b, i)) = Cardinality(C)
  BY <1>3, <1>6, FS_Bijection
<1> QED
  BY <1>7 DEF C

\* A position is in one word.
LEMMA OneWord ==
  ASSUME NEW a \in Bitset, NEW b \in Bitset,
         NEW i \in 1..Len(a), NEW j \in 1..Len(b),
         NEW x \in Block(a, i), x \in Block(b, j)
  PROVE  i = j
<1>1. /\ i \in Nat /\ j \in Nat /\ x \in Nat /\ WordBits \in Nat \ {0}
      /\ (i - 1) * WordBits <= x /\ x < i * WordBits
      /\ (j - 1) * WordBits <= x /\ x < j * WordBits
      /\ (i - 1) * WordBits \in Nat /\ (j - 1) * WordBits \in Nat
  BY WordFacts
<1>2. \A m \in Nat, n \in Nat : m <= n - 1 => m * WordBits <= (n - 1) * WordBits
  <2> SUFFICES ASSUME NEW m \in Nat, NEW n \in Nat, m <= n - 1
               PROVE  m * WordBits <= (n - 1) * WordBits
    OBVIOUS
  <2> DEFINE d == (n - 1) - m
  <2>1. d \in Nat /\ n - 1 = m + d
    OBVIOUS
  <2> HIDE DEF d
  <2>2. (m + d) * WordBits = m * WordBits + d * WordBits /\ d * WordBits \in Nat /\ m * WordBits \in Nat
    BY <1>1, <2>1
  <2> QED
    BY <2>1, <2>2
<1>3. ASSUME i < j PROVE FALSE
  <2>1. i * WordBits <= (j - 1) * WordBits
    BY <1>1, <1>2, <1>3
  <2> DEFINE p == i * WordBits
             q == (j - 1) * WordBits
  <2>2. p \in Nat /\ q \in Nat /\ x < p /\ q <= x /\ p <= q
    BY <1>1, <2>1
  <2> HIDE DEF p, q
  <2> QED
    BY <1>1, <2>2
<1>4. ASSUME j < i PROVE FALSE
  <2>1. j * WordBits <= (i - 1) * WordBits
    BY <1>1, <1>2, <1>4
  <2> DEFINE p == j * WordBits
             q == (i - 1) * WordBits
  <2>2. p \in Nat /\ q \in Nat /\ x < p /\ q <= x /\ p <= q
    BY <1>1, <2>1
  <2> HIDE DEF p, q
  <2> QED
    BY <1>1, <2>2
<1> QED
  BY <1>1, <1>3, <1>4

LEMMA CommonsAreDisjoint ==
  ASSUME NEW a \in Bitset, NEW b \in Bitset,
         NEW i \in 1..Len(a), NEW j \in 1..Len(b), i # j
  PROVE  Common(a, b, i) \cap Common(a, b, j) = {}
  BY OneWord DEF Common

\* The words of a lane are Lanes apart.
LEMMA LaneOfWord ==
  ASSUME NEW n \in Nat
  PROVE  /\ \A v \in 1..n \div Lanes, l \in 1..Lanes : (v - 1) * Lanes + l \in 1..Whole(n)
         /\ \A v, w \in 1..n \div Lanes : \A l, k \in 1..Lanes :
              (v - 1) * Lanes + l = (w - 1) * Lanes + k => v = w /\ l = k
         /\ \A i \in 1..Whole(n) :
              \E v \in 1..n \div Lanes, l \in 1..Lanes : i = (v - 1) * Lanes + l
<1> DEFINE m == n \div Lanes
           W == Whole(n)
           top == [v \in 1..m |-> v * Lanes]
           low == [v \in 1..m |-> (v - 1) * Lanes]
<1>1. /\ Lanes \in Nat \ {0} /\ m \in Nat /\ W \in Nat
      /\ \A v \in 1..m : low[v] \in Nat /\ top[v] = low[v] + Lanes /\ top[v] <= W
  BY WholeFacts
<1>2. ASSUME NEW v \in 1..m, NEW w \in 1..m, v < w PROVE top[v] <= low[w]
  <2> DEFINE d == (w - 1) - v
  <2>1. d \in Nat /\ w - 1 = v + d /\ v \in Nat
    BY <1>2
  <2> HIDE DEF d, m
  <2>2. (v + d) * Lanes = v * Lanes + d * Lanes /\ d * Lanes \in Nat /\ v * Lanes \in Nat
    BY <1>1, <2>1
  <2>3. top[v] = v * Lanes /\ low[w] = (w - 1) * Lanes
    OBVIOUS
  <2> QED
    BY <2>1, <2>2, <2>3
<1>3. \A v \in 1..m : low[v] = (v - 1) * Lanes
  OBVIOUS
<1>4. ASSUME NEW i \in 1..W
      PROVE  \E v \in 1..m, l \in 1..Lanes : i = low[v] + l
  <2> DEFINE q == (i - 1) \div Lanes
             v == q + 1
             l == i - q * Lanes
  <2>1. q \in Nat /\ Lanes * q <= i - 1 /\ i - 1 < Lanes * q + Lanes
    BY <1>1
  <2> HIDE DEF q
  <2>2. q * Lanes = Lanes * q /\ q * Lanes \in Nat
    BY <1>1, <2>1
  <2> DEFINE r == q * Lanes
  <2>3. r \in Nat /\ r <= i - 1 /\ i - 1 < r + Lanes
    <3> DEFINE t == Lanes * q
    <3>1. t \in Nat /\ t <= i - 1 /\ i - 1 < t + Lanes /\ r = t
      BY <2>1, <2>2
    <3> HIDE DEF t, r
    <3> QED
      BY <3>1
  <2>4. v \in 1..m
    <3> SUFFICES ASSUME m <= q PROVE FALSE
      BY <1>1, <2>1
    <3> DEFINE d == q - m
    <3>1. d \in Nat /\ q = m + d
      BY <1>1, <2>1
    <3> HIDE DEF d, m
    <3>2. (m + d) * Lanes = m * Lanes + d * Lanes /\ d * Lanes \in Nat /\ m * Lanes \in Nat
      BY <1>1, <3>1
    <3>3. W = m * Lanes
      BY DEF Whole, m
    <3> DEFINE x == m * Lanes
               y == d * Lanes
    <3>4. x \in Nat /\ y \in Nat /\ r = x + y /\ W = x
      BY <3>1, <3>2, <3>3
    <3> HIDE DEF x, y, r, W
    <3> QED
      BY <1>1, <2>3, <3>4
  <2>5. low[v] = r
    <3>1. v - 1 = q
      BY <2>1
    <3> HIDE DEF v, m
    <3> QED
      BY <2>4, <3>1
  <2> HIDE DEF r, m, low, v, W
  <2>6. l \in 1..Lanes /\ i = r + l
    <3>1. l = i - r /\ i \in Nat
      BY <1>1 DEF r
    <3> HIDE DEF l
    <3> QED
      BY <1>1, <2>3, <3>1
  <2> HIDE DEF l
  <2> QED
    BY <2>4, <2>5, <2>6
<1> HIDE DEF top, low, W
<1>5. ASSUME NEW v \in 1..m, NEW l \in 1..Lanes PROVE low[v] + l \in 1..W
  <2> HIDE DEF m
  <2>1. low[v] \in Nat /\ top[v] = low[v] + Lanes /\ top[v] <= W
    BY <1>1
  <2> QED
    BY <1>1, <2>1
<1>6. ASSUME NEW v \in 1..m, NEW w \in 1..m, NEW l \in 1..Lanes, NEW k \in 1..Lanes,
             low[v] + l = low[w] + k
      PROVE  v = w /\ l = k
  <2> HIDE DEF m
  <2>1. /\ low[v] \in Nat /\ top[v] = low[v] + Lanes
        /\ low[w] \in Nat /\ top[w] = low[w] + Lanes
    BY <1>1
  <2>2. l \in Nat /\ k \in Nat /\ 1 <= l /\ l <= Lanes /\ 1 <= k /\ k <= Lanes
    BY <1>1
  <2>3. ~(v < w)
    BY <1>1, <1>2, <1>6, <2>1, <2>2
  <2>4. ~(w < v)
    BY <1>1, <1>2, <1>6, <2>1, <2>2
  <2>5. v = w
    BY <1>1, <2>3, <2>4
  <2> QED
    BY <1>6, <2>1, <2>2, <2>5
<1>7. /\ \A v \in 1..m, l \in 1..Lanes : low[v] + l \in 1..W
      /\ \A v, w \in 1..m : \A l, k \in 1..Lanes : low[v] + l = low[w] + k => v = w /\ l = k
      /\ \A i \in 1..W : \E v \in 1..m, l \in 1..Lanes : i = low[v] + l
  BY <1>4, <1>5, <1>6
<1> HIDE DEF m
<1>8. /\ \A v \in 1..m, l \in 1..Lanes : (v - 1) * Lanes + l \in 1..W
      /\ \A v, w \in 1..m : \A l, k \in 1..Lanes :
           (v - 1) * Lanes + l = (w - 1) * Lanes + k => v = w /\ l = k
      /\ \A i \in 1..W : \E v \in 1..m, l \in 1..Lanes : i = (v - 1) * Lanes + l
  <2>1. \A v \in 1..m, l \in 1..Lanes : (v - 1) * Lanes + l \in 1..W
    BY <1>3, <1>7, Zenon
  <2>2. ASSUME NEW v \in 1..m, NEW w \in 1..m, NEW l \in 1..Lanes, NEW k \in 1..Lanes,
               (v - 1) * Lanes + l = (w - 1) * Lanes + k
        PROVE  v = w /\ l = k
    <3>1. low[v] + l = low[w] + k
      BY <1>3, <2>2, Zenon
    <3> QED
      BY <1>6, <3>1
  <2>3. ASSUME NEW i \in 1..W PROVE \E v \in 1..m, l \in 1..Lanes : i = (v - 1) * Lanes + l
    <3>1. PICK v \in 1..m, l \in 1..Lanes : i = low[v] + l
      BY <1>7
    <3>2. i = (v - 1) * Lanes + l
      BY <1>3, <3>1, Zenon
    <3> QED
      BY <3>2, Zenon
  <2> QED
    BY <2>1, <2>2, <2>3, Zenon
<1> QED
  BY <1>8 DEF m, W

\* Finite sets that share nothing, one for each word.
Parts(n, C) ==
  /\ n \in Nat /\ \A i \in 1..n : IsFiniteSet(C[i])
  /\ \A i, j \in 1..n : i # j => C[i] \cap C[j] = {}

\* One sum per lane, then the sum of the lanes, counts the words of whole vectors.
LEMMA LanesAddUp ==
  ASSUME NEW n, NEW C, Parts(n, C)
  PROVE  LET lane(l) == AddUp([v \in 1..n \div Lanes |-> Cardinality(C[(v - 1) * Lanes + l])])
         IN  /\ IsFiniteSet(UNION {C[i] : i \in 1..Whole(n)})
             /\ AddUp([l \in 1..Lanes |-> lane(l)]) = Cardinality(UNION {C[i] : i \in 1..Whole(n)})
<1> DEFINE m == n \div Lanes
           W == Whole(n)
           word(v, l) == (v - 1) * Lanes + l
           lane(l) == AddUp([v \in 1..m |-> Cardinality(C[word(v, l)])])
           P(l) == [v \in 1..m |-> C[word(v, l)]]
           L == [l \in 1..Lanes |-> UNION {C[word(v, l)] : v \in 1..m}]
<1>1. /\ n \in Nat /\ \A i \in 1..n : IsFiniteSet(C[i])
      /\ \A i, j \in 1..n : i # j => C[i] \cap C[j] = {}
  BY DEF Parts
<1>2. m \in Nat /\ Lanes \in Nat /\ W \in Nat /\ W <= n
  BY <1>1, WholeFacts
<1>3. /\ \A v \in 1..m, l \in 1..Lanes : word(v, l) \in 1..W
      /\ \A v, w \in 1..m : \A l, k \in 1..Lanes : word(v, l) = word(w, k) => v = w /\ l = k
      /\ \A i \in 1..W : \E v \in 1..m, l \in 1..Lanes : i = word(v, l)
  BY <1>1, LaneOfWord
<1> HIDE DEF m, W, word
<1>4. \A v \in 1..m, l \in 1..Lanes : word(v, l) \in 1..n
  <2>1. 1..W \subseteq 1..n
    BY <1>1, <1>2
  <2> QED
    BY <1>3, <2>1
<1>5. ASSUME NEW l \in 1..Lanes PROVE IsFiniteSet(L[l]) /\ lane(l) = Cardinality(L[l])
  <2> DEFINE Q == P(l)
  <2>1. \A v \in 1..m : Q[v] = C[word(v, l)]
    OBVIOUS
  <2>2. \A v \in 1..m : IsFiniteSet(Q[v])
    BY <1>1, <1>4
  <2>3. \A v, w \in 1..m : v # w => Q[v] \cap Q[w] = {}
    BY <1>1, <1>3, <1>4
  <2>4. UNION {Q[v] : v \in 1..m} = L[l]
    OBVIOUS
  <2>5. lane(l) = AddUp([v \in 1..m |-> Cardinality(Q[v])])
    <3>1. [v \in 1..m |-> Cardinality(Q[v])] = [v \in 1..m |-> Cardinality(C[word(v, l)])]
      OBVIOUS
    <3> QED
      BY <3>1
  <2> HIDE DEF Q, L, lane
  <2>6. /\ IsFiniteSet(UNION {Q[v] : v \in 1..m})
        /\ AddUp([v \in 1..m |-> Cardinality(Q[v])]) = Cardinality(UNION {Q[v] : v \in 1..m})
    <3>1. m \in Nat
      BY <1>2
    <3> QED
      BY <2>2, <2>3, <3>1, AddUpSizes
  <2> QED
    BY <2>4, <2>5, <2>6
<1>6. \A l, k \in 1..Lanes : l # k => L[l] \cap L[k] = {}
  <2> SUFFICES ASSUME NEW l \in 1..Lanes, NEW k \in 1..Lanes, NEW x \in L[l], x \in L[k]
               PROVE  l = k
    OBVIOUS
  <2>1. PICK v \in 1..m : x \in C[word(v, l)]
    OBVIOUS
  <2>2. PICK w \in 1..m : x \in C[word(w, k)]
    OBVIOUS
  <2>3. word(v, l) = word(w, k)
    BY <1>1, <1>4, <2>1, <2>2
  <2> QED
    BY <1>3, <2>3
<1>7. UNION {L[l] : l \in 1..Lanes} = UNION {C[i] : i \in 1..W}
  <2>1. ASSUME NEW x \in UNION {L[l] : l \in 1..Lanes} PROVE x \in UNION {C[i] : i \in 1..W}
    BY <1>3, <2>1
  <2>2. ASSUME NEW x \in UNION {C[i] : i \in 1..W} PROVE x \in UNION {L[l] : l \in 1..Lanes}
    <3>1. PICK i \in 1..W : x \in C[i]
      BY <2>2
    <3>2. PICK v \in 1..m, l \in 1..Lanes : i = word(v, l)
      BY <1>3
    <3>3. x \in L[l]
      BY <3>1, <3>2
    <3> HIDE DEF L
    <3> QED
      BY <3>3
  <2> HIDE DEF L
  <2> QED
    BY <2>1, <2>2
<1>8. [l \in 1..Lanes |-> lane(l)] = [l \in 1..Lanes |-> Cardinality(L[l])]
  <2> HIDE DEF L, lane
  <2> QED
    BY <1>5
<1>9. /\ IsFiniteSet(UNION {L[l] : l \in 1..Lanes})
      /\ AddUp([l \in 1..Lanes |-> Cardinality(L[l])]) = Cardinality(UNION {L[l] : l \in 1..Lanes})
  <2> HIDE DEF L, lane
  <2>1. \A l \in 1..Lanes : IsFiniteSet(L[l])
    BY <1>5
  <2> QED
    BY <1>2, <1>6, <2>1, AddUpSizes
<1>10. /\ IsFiniteSet(UNION {C[i] : i \in 1..W})
       /\ AddUp([l \in 1..Lanes |-> lane(l)]) = Cardinality(UNION {C[i] : i \in 1..W})
  <2> HIDE DEF L, lane
  <2> QED
    BY <1>7, <1>8, <1>9
<1> QED
  BY <1>10 DEF m, W, word

\* The words after the last whole vector.
LEMMA RestAddsUp ==
  ASSUME NEW n, NEW C, Parts(n, C)
  PROVE  LET rest == UNION {C[i] : i \in Whole(n) + 1..n}
         IN  /\ IsFiniteSet(rest)
             /\ AddUp([k \in 1..n - Whole(n) |-> Cardinality(C[Whole(n) + k])]) = Cardinality(rest)
<1> DEFINE W == Whole(n)
           r == n - W
           P == [k \in 1..r |-> C[W + k]]
<1>1. /\ n \in Nat /\ \A i \in 1..n : IsFiniteSet(C[i])
      /\ \A i, j \in 1..n : i # j => C[i] \cap C[j] = {}
  BY DEF Parts
<1>2. W \in Nat /\ W <= n
  BY <1>1, WholeFacts
<1> HIDE DEF W
<1>3. r \in Nat /\ \A k \in 1..r : W + k \in 1..n
  BY <1>1, <1>2
<1>4. \A k \in 1..r : IsFiniteSet(P[k])
  BY <1>1, <1>3
<1>5. \A j, k \in 1..r : j # k => P[j] \cap P[k] = {}
  <2> SUFFICES ASSUME NEW j \in 1..r, NEW k \in 1..r, j # k PROVE C[W + j] \cap C[W + k] = {}
    OBVIOUS
  <2>1. W + j # W + k
    BY <1>2
  <2> QED
    BY <1>1, <1>3, <2>1
<1>6. UNION {P[k] : k \in 1..r} = UNION {C[i] : i \in W + 1..n}
  <2>1. \A k \in 1..r : W + k \in W + 1..n
    BY <1>1, <1>2
  <2>2. \A i \in W + 1..n : i - W \in 1..r /\ W + (i - W) = i
    BY <1>1, <1>2
  <2>3. ASSUME NEW i \in W + 1..n PROVE P[i - W] = C[i]
    <3> HIDE DEF r
    <3> QED
      BY <2>2
  <2> HIDE DEF r
  <2>4. \A k \in 1..r : P[k] = C[W + k]
    OBVIOUS
  <2> HIDE DEF P
  <2> QED
    BY <2>1, <2>2, <2>3, <2>4
<1>7. [k \in 1..r |-> Cardinality(P[k])] = [k \in 1..r |-> Cardinality(C[W + k])]
  OBVIOUS
<1> HIDE DEF P, r
<1>8. /\ IsFiniteSet(UNION {P[k] : k \in 1..r})
      /\ AddUp([k \in 1..r |-> Cardinality(P[k])]) = Cardinality(UNION {P[k] : k \in 1..r})
  BY <1>3, <1>4, <1>5, AddUpSizes
<1> QED
  BY <1>6, <1>7, <1>8 DEF r, W

\* In lanes or word by word, the count is that of the common bits.
LEMMA SimdCountsCommonBits ==
  ASSUME NEW a \in Bitset, NEW b \in Bitset, NEW tier
  PROVE  SimdAndPopcount(a, b, tier) =
           Cardinality(BitsOf(a, 0, Len(a)) \cap BitsOf(b, 0, Len(b)))
<1> DEFINE n == IF Len(b) < Len(a) THEN Len(b) ELSE Len(a)
           C == [i \in 1..n |-> Common(a, b, i)]
           W == Whole(n)
           count(i) == Cardinality(a[i] \cap b[i])
           head == UNION {C[i] : i \in 1..W}
           rest == UNION {C[i] : i \in W + 1..n}
           all == UNION {C[i] : i \in 1..n}
<1>1. Len(a) \in Nat /\ Len(b) \in Nat
  BY LenProperties DEF Bitset
<1>2. n \in Nat /\ n <= Len(a) /\ n <= Len(b)
      /\ \A i \in 1..Len(a) : i \in 1..Len(b) => i \in 1..n
  BY <1>1
<1>3. \A i \in 1..n : i \in 1..Len(a) /\ i \in 1..Len(b)
  <2> HIDE DEF n
  <2> QED
    BY <1>1, <1>2
<1>4. W \in Nat /\ W <= n
  <2> HIDE DEF n
  <2> QED
    BY <1>2, WholeFacts
<1> HIDE DEF n, W
<1>5. \A i \in 1..n : IsFiniteSet(C[i]) /\ Cardinality(C[i]) = count(i)
  <2> SUFFICES ASSUME NEW i \in 1..n PROVE IsFiniteSet(C[i]) /\ Cardinality(C[i]) = count(i)
    OBVIOUS
  <2>1. C[i] = Common(a, b, i)
    OBVIOUS
  <2> HIDE DEF C
  <2> QED
    BY <1>3, <2>1, CommonFacts
<1>6. \A i, j \in 1..n : i # j => C[i] \cap C[j] = {}
  BY <1>3, CommonsAreDisjoint
<1>7. Parts(n, C)
  <2> HIDE DEF C
  <2> QED
    BY <1>2, <1>5, <1>6 DEF Parts
<1>8. all = BitsOf(a, 0, Len(a)) \cap BitsOf(b, 0, Len(b))
  <2>1. /\ BitsOf(a, 0, Len(a)) = UNION {Block(a, i) : i \in 1..Len(a)}
        /\ BitsOf(b, 0, Len(b)) = UNION {Block(b, i) : i \in 1..Len(b)}
    BY DEF BitsOf
  <2>2. ASSUME NEW x \in all PROVE x \in BitsOf(a, 0, Len(a)) \cap BitsOf(b, 0, Len(b))
    <3>1. PICK i \in 1..n : x \in Block(a, i) /\ x \in Block(b, i)
      BY <2>2 DEF Common
    <3> QED
      BY <1>3, <2>1, <3>1
  <2>3. ASSUME NEW x \in BitsOf(a, 0, Len(a)) \cap BitsOf(b, 0, Len(b)) PROVE x \in all
    <3>1. PICK i \in 1..Len(a) : x \in Block(a, i)
      BY <2>1, <2>3
    <3>2. PICK j \in 1..Len(b) : x \in Block(b, j)
      BY <2>1, <2>3
    <3>3. i = j
      BY <3>1, <3>2, OneWord
    <3>4. i \in 1..n /\ x \in Common(a, b, i)
      BY <1>2, <3>1, <3>2, <3>3 DEF Common
    <3> QED
      BY <3>4
  <2> HIDE DEF all
  <2> QED
    BY <2>2, <2>3
<1>9. AddUp([i \in 1..n |-> count(i)]) = Cardinality(all)
  <2>1. [i \in 1..n |-> count(i)] = [i \in 1..n |-> Cardinality(C[i])]
    <3> HIDE DEF C
    <3> QED
      BY <1>5
  <2> HIDE DEF C
  <2>2. AddUp([i \in 1..n |-> Cardinality(C[i])]) = Cardinality(all)
    BY <1>2, <1>5, <1>6, AddUpSizes
  <2> QED
    BY <2>1, <2>2
<1>10. /\ IsFiniteSet(head)
       /\ AddUp([l \in 1..Lanes |-> AddUp([v \in 1..n \div Lanes |-> count((v - 1) * Lanes + l)])])
            = Cardinality(head)
  <2> DEFINE m == n \div Lanes
  <2>1. ASSUME NEW l \in 1..Lanes, NEW v \in 1..m
        PROVE  count((v - 1) * Lanes + l) = Cardinality(C[(v - 1) * Lanes + l])
    <3> DEFINE i == (v - 1) * Lanes + l
    <3>1. i \in 1..W
      BY <1>2, LaneOfWord DEF W
    <3> HIDE DEF i, C
    <3>2. i \in 1..n
      BY <1>2, <1>4, <3>1
    <3>3. count(i) = Cardinality(C[i])
      BY <1>5, <3>2
    <3> QED
      BY <3>3 DEF i
  <2> HIDE DEF C, count, m
  <2>2. \A l \in 1..Lanes : [v \in 1..m |-> count((v - 1) * Lanes + l)] =
                            [v \in 1..m |-> Cardinality(C[(v - 1) * Lanes + l])]
    BY <2>1
  <2>3. [l \in 1..Lanes |-> AddUp([v \in 1..m |-> count((v - 1) * Lanes + l)])] =
        [l \in 1..Lanes |-> AddUp([v \in 1..m |-> Cardinality(C[(v - 1) * Lanes + l])])]
    BY <2>2
  <2>4. /\ IsFiniteSet(head)
        /\ AddUp([l \in 1..Lanes |-> AddUp([v \in 1..m |-> Cardinality(C[(v - 1) * Lanes + l])])])
             = Cardinality(head)
    BY <1>7, LanesAddUp DEF m, W
  <2> QED
    BY <2>3, <2>4 DEF m
<1>11. /\ IsFiniteSet(rest)
       /\ AddUp([k \in 1..n - W |-> count(W + k)]) = Cardinality(rest)
  <2>1. \A k \in 1..n - W : W + k \in 1..n
    BY <1>2, <1>4
  <2> HIDE DEF C
  <2>2. [k \in 1..n - W |-> count(W + k)] = [k \in 1..n - W |-> Cardinality(C[W + k])]
    BY <1>5, <2>1
  <2>3. IsFiniteSet(rest) /\ AddUp([k \in 1..n - W |-> Cardinality(C[W + k])]) = Cardinality(rest)
    BY <1>7, RestAddsUp DEF W
  <2> QED
    BY <2>2, <2>3
<1>12. Cardinality(head) + Cardinality(rest) = Cardinality(all)
  <2>1. all = head \cup rest
    <3>1. 1..n = (1..W) \cup (W + 1..n)
      BY <1>2, <1>4
    <3> HIDE DEF C
    <3> QED
      BY <3>1
  <2>2. head \cap rest = {}
    <3>1. \A i \in 1..W, j \in W + 1..n : i \in 1..n /\ j \in 1..n /\ i # j
      BY <1>2, <1>4
    <3> HIDE DEF C
    <3> QED
      BY <1>6, <3>1
  <2> HIDE DEF head, rest, all
  <2>3. Cardinality(head) \in Nat /\ Cardinality(rest) \in Nat
    BY <1>10, <1>11, FS_CardinalityType
  <2>4. Cardinality(head \cup rest) = Cardinality(head) + Cardinality(rest) - Cardinality(head \cap rest)
    BY <1>10, <1>11, FS_Union
  <2>5. Cardinality(head \cap rest) = 0
    BY <2>2, FS_EmptySet
  <2> QED
    BY <2>1, <2>3, <2>4, <2>5
<1> HIDE DEF head, rest, all, C
<1>13. SimdAndPopcount(a, b, tier) =
         IF tier = "avx512"
         THEN AddUp([l \in 1..Lanes |-> AddUp([v \in 1..n \div Lanes |-> count((v - 1) * Lanes + l)])])
                + AddUp([k \in 1..n - W |-> count(W + k)])
         ELSE AddUp([i \in 1..n |-> count(i)])
  BY DEF SimdAndPopcount, n, W
<1> QED
  BY <1>8, <1>9, <1>10, <1>11, <1>12, <1>13

-----------------------------------------------------------------------------
(* The kernels' answers, and the types of the state *)

LEMMA BitsetJobs ==
  ASSUME NEW b \in Bitsets
  PROVE  /\ b.words \in Bitset /\ b.with \in Bitset
         /\ \A ws \in Bitset :
              UNION {{(i - 1) * WordBits + p : p \in ws[i]} : i \in DOMAIN ws} = BitsOf(ws, 0, Len(ws))
<1>1. b.words \in Bitset /\ b.with \in Bitset
  BY EnginesAssumption DEF Bitset
<1>2. ASSUME NEW ws \in Bitset
      PROVE  UNION {{(i - 1) * WordBits + p : p \in ws[i]} : i \in DOMAIN ws} = BitsOf(ws, 0, Len(ws))
  <2>1. DOMAIN ws = 0 + 1..Len(ws)
    BY LenProperties DEF Bitset
  <2> QED
    BY <2>1 DEF BitsOf, Block
<1> QED
  BY <1>1, <1>2

\* On words of any width and vectors of any number of lanes, and whatever is left
\* after the last whole vector, the extraction lists every bit once and in order and
\* the count is the number of common bits, in vectors and word by word.
THEOREM KernelsAreExact == Spec => []KernelsExact
<1>1. CallerInv => KernelsExact
  <2> SUFFICES ASSUME CallerInv, "tier" \in DOMAIN job PROVE KernelsExact
    BY DEF KernelsExact
  <2> DEFINE a == job.words
             b == job.with
             bits(ws) == UNION {{(i - 1) * WordBits + p : p \in ws[i]} : i \in DOMAIN ws}
  <2>1. /\ job \in Bitsets /\ answer = ExtractSet(a, job.tier)
        /\ total = SimdAndPopcount(a, b, job.tier)
    BY DEF CallerInv
  <2>2. /\ a \in Bitset /\ b \in Bitset
        /\ bits(a) = BitsOf(a, 0, Len(a)) /\ bits(b) = BitsOf(b, 0, Len(b))
    BY <2>1, BitsetJobs
  <2> HIDE DEF a, b, bits
  <2>3. Lists(a, answer, 0, Len(a))
    BY <2>1, <2>2, ExtractSetLists
  <2>4. Elems(answer) = bits(a)
    BY <2>2, <2>3 DEF Lists
  <2>5. \A i \in 2..Len(answer) : answer[i - 1] < answer[i]
    <3>1. answer \in Seq(Nat) /\ \A i, j \in 1..Len(answer) : i < j => answer[i] < answer[j]
      BY <2>3 DEF Lists, AscendingSeqs, Ascending
    <3>2. Len(answer) \in Nat
      BY <3>1, LenProperties
    <3>3. \A i \in 2..Len(answer) : i \in 1..Len(answer) /\ i - 1 \in 1..Len(answer) /\ i - 1 < i
      BY <3>2
    <3> QED
      BY <3>1, <3>3
  <2>6. total = Cardinality(bits(a) \cap bits(b))
    BY <2>1, <2>2, SimdCountsCommonBits
  <2> QED
    BY <2>4, <2>5, <2>6 DEF KernelsExact, a, b, bits
<1> QED
  BY InitMutex, StepMutex, InitSearch, StepSearch, InitCaller, StepCaller, <1>1, PTL DEF Spec

AnswerInv == MutexInv /\ SearchInv /\ CountInv /\ CallerInv

TypeInv ==
  /\ phase \in {"idle", "search", "count", "returned", "panic"}
  /\ workers \in 0..MaxProcs
  /\ at \in [Worker -> Nat] /\ loaded \in [Worker -> Nat]
  /\ total \in Nat

\* The total is the size of a set.
LEMMA TotalIsNatural ==
  /\ \A c \in Counts : \A S : Cardinality(Shared(c, S)) \in Nat
  /\ \A b \in Bitsets : SimdAndPopcount(b.words, b.with, b.tier) \in Nat
<1>1. ASSUME NEW c \in Counts, NEW S PROVE Cardinality(Shared(c, S)) \in Nat
  BY SharedIsFinite, FS_CardinalityType
<1>2. ASSUME NEW b \in Bitsets PROVE SimdAndPopcount(b.words, b.with, b.tier) \in Nat
  <2> DEFINE w == b.words
             v == b.with
             s == ExtractSet(w, b.tier)
  <2>1. w \in Bitset /\ v \in Bitset
    BY BitsetJobs
  <2> HIDE DEF w, v
  <2>2. s \in Seq(Nat) /\ Ascending(s) /\ Elems(s) = BitsOf(w, 0, Len(w))
    BY <2>1, ExtractSetLists DEF Lists, AscendingSeqs
  <2> HIDE DEF s
  <2>3. IsFiniteSet(BitsOf(w, 0, Len(w)))
    BY <2>2, CountAscending
  <2>4. IsFiniteSet(BitsOf(w, 0, Len(w)) \cap BitsOf(v, 0, Len(v)))
    BY <2>3, FS_Subset
  <2>5. SimdAndPopcount(w, v, b.tier) \in Nat
    BY <2>1, <2>4, SimdCountsCommonBits, FS_CardinalityType
  <2> QED
    BY <2>5 DEF w, v
<1> QED
  BY <1>1, <1>2

LEMMA ForkTypes ==
  ASSUME NEW n \in Nat \ {0}, NEW p \in Procs, NEW z, Fork(n, Smaller(p, n), z)
  PROVE  workers' \in 0..MaxProcs /\ at' \in [Worker -> Nat]
<1> DEFINE k == Smaller(p, n)
<1>1. k \in Nat \ {0} /\ k <= MaxProcs
  <2>1. p \in Nat \ {0} /\ p <= MaxProcs /\ MaxProcs \in Nat
    BY MostProcs, EnginesAssumption
  <2> QED
    BY <2>1 DEF Smaller
<1> HIDE DEF k
<1>2. \A w \in Worker : First(w, n, k) \in Nat
  <2>1. \A w \in Worker : w \in Nat
    BY MostProcs DEF Worker
  <2> QED
    BY <1>1, <2>1, ChunkBounds
<1>3. /\ workers' = k
      /\ at' = [w \in Worker |-> IF w < k /\ First(w, n, k) < n THEN First(w, n, k) ELSE 0]
  BY DEF Fork, First, k
<1> QED
  BY <1>1, <1>2, <1>3, MostProcs

LEMMA InitType == Init => TypeInv
  BY MostProcs DEF Init, TypeInv

LEMMA StepType == TypeInv /\ AnswerInv /\ AnswerInv' /\ [Next]_vars => TypeInv'
<1> SUFFICES ASSUME TypeInv, AnswerInv, AnswerInv', [Next]_vars PROVE TypeInv'
  OBVIOUS
<1>1. ASSUME NEW j \in Searches, NEW p \in Procs, Search(j, p) PROVE TypeInv'
  <2>1. UNCHANGED <<loaded, total>> /\ phase' \in {"returned", "search"}
    BY <1>1 DEF Search
  <2>2. workers' \in 0..MaxProcs /\ at' \in [Worker -> Nat]
    <3>1. CASE UNCHANGED <<workers, at>>
      BY <3>1 DEF TypeInv
    <3>2. CASE j.batch # <<>> /\ Fork(Len(j.batch), Smaller(p, Len(j.batch)), <<>>)
      <4>1. Len(j.batch) \in Nat \ {0}
        BY <3>2, SearchJobs
      <4> QED
        BY <3>2, <4>1, ForkTypes
    <3> QED
      BY <1>1, <3>1, <3>2 DEF Search
  <2> QED
    BY <2>1, <2>2 DEF TypeInv
<1>2. ASSUME NEW c \in Counts, NEW p \in Procs, Count(c, p) PROVE TypeInv'
  <2>1. UNCHANGED loaded /\ phase' \in {"panic", "returned", "count"} /\ job' = c
    BY <1>2 DEF Count
  <2>2. workers' \in 0..MaxProcs /\ at' \in [Worker -> Nat]
    <3>1. CASE UNCHANGED <<workers, at>>
      BY <3>1 DEF TypeInv
    <3>2. CASE Fork(c.shards, Smaller(p, c.shards), 0)
      BY <3>2, CountJobs, ForkTypes
    <3> QED
      BY <1>2, <3>1, <3>2 DEF Count
  <2>3. total' \in Nat
    <3>1. CASE phase' = "returned"
      <4>1. (IsCount /\ CountAnswered)'
        BY <2>1, <3>1, CountJobs DEF AnswerInv, CountInv, IsCount
      <4> QED
        BY <2>1, <4>1, TotalIsNatural DEF CountAnswered
    <3>2. CASE phase' # "returned"
      <4>1. total' = total
        BY <1>2, <3>2 DEF Count
      <4> QED
        BY <4>1 DEF TypeInv
    <3> QED
      BY <3>1, <3>2
  <2> QED
    BY <2>1, <2>2, <2>3 DEF TypeInv
<1>3. ASSUME NEW b \in Bitsets, Kernel(b) PROVE TypeInv'
  <2>1. /\ phase' = "returned" /\ total' = SimdAndPopcount(b.words, b.with, b.tier)
        /\ UNCHANGED <<workers, at, loaded>>
    BY <1>3 DEF Kernel
  <2> QED
    BY <2>1, TotalIsNatural DEF TypeInv
<1>4. ASSUME NEW t \in Tables, LookUp(t) PROVE TypeInv'
  <2>1. phase' \in {"panic", "returned"} /\ UNCHANGED <<workers, at, loaded, total>>
    BY <1>4 DEF LookUp
  <2> QED
    BY <2>1 DEF TypeInv
<1>5. ASSUME NEW w \in Worker, Step(w) PROVE TypeInv'
  <2>1. CASE Look(w) \/ CountShard(w)
    <3>1. at' = [at EXCEPT ![w] = @ + 1] /\ UNCHANGED <<phase, workers, loaded, total>>
      BY <2>1 DEF Look, CountShard
    <3> QED
      BY <3>1 DEF TypeInv
  <2>2. CASE Found(w) \/ Lock(w)
    <3>1. UNCHANGED <<phase, workers, at, loaded, total>>
      BY <2>2 DEF Found, Lock
    <3> QED
      BY <3>1 DEF TypeInv
  <2>3. CASE LoadTotal(w)
    <3>1. loaded' = [loaded EXCEPT ![w] = total] /\ UNCHANGED <<phase, workers, at, total>>
      BY <2>3 DEF LoadTotal
    <3> QED
      BY <3>1 DEF TypeInv
  <2>4. CASE StoreTotal(w)
    <3>1. pc[w] = "store" /\ UNCHANGED <<phase, job, workers, at, loaded>>
      BY <2>4 DEF StoreTotal
    <3>2. phase = "count"
      <4>1. phase \in {"search", "count"}
        BY <3>1 DEF AnswerInv, MutexInv
      <4>2. phase # "search"
        BY <3>1 DEF AnswerInv, SearchInv, Searched
      <4> QED
        BY <4>1, <4>2
    <3>3. job' \in Counts /\ total' = Cardinality(Shared(job', Added'))
      BY <3>1, <3>2 DEF AnswerInv, CountInv
    <3>4. total' \in Nat
      BY <3>3, TotalIsNatural
    <3> QED
      BY <3>1, <3>4 DEF TypeInv
  <2> QED
    BY <1>5, <2>1, <2>2, <2>3, <2>4 DEF Step
<1>6. CASE Wait
  <2>1. phase' = "returned" /\ UNCHANGED <<workers, at, loaded, total>>
    BY <1>6 DEF Wait
  <2> QED
    BY <2>1 DEF TypeInv
<1>7. CASE Again
  <2>1. /\ phase' = "idle" /\ workers' = 0 /\ at' = [w \in Worker |-> 0]
        /\ loaded' = [w \in Worker |-> 0] /\ total' = 0
    BY <1>7 DEF Again
  <2> QED
    BY <2>1, MostProcs DEF TypeInv
<1>8. CASE UNCHANGED vars
  BY <1>8 DEF vars, TypeInv
<1> QED
  BY <1>1, <1>2, <1>3, <1>4, <1>5, <1>6, <1>7, <1>8 DEF Next

\* Every reachable state is well typed, and the mutex is held exactly by the
\* goroutine that adds.
THEOREM TypesAreKept == Spec => []TypeOK
<1>1. TypeInv /\ AnswerInv => TypeOK
  BY DEF TypeInv, AnswerInv, MutexInv, TypeOK
<1>2. Spec => []AnswerInv
  BY InitMutex, StepMutex, InitSearch, StepSearch, InitCount, StepCount,
     InitCaller, StepCaller, PTL DEF Spec, AnswerInv
<1> QED
  BY InitType, StepType, <1>1, <1>2, PTL DEF Spec
=============================================================================
