------------------------ MODULE ShardedClusterProofs ------------------------
(***************************************************************************)
(* ShardedCluster for any nodes, shards and owners of them, clients, words *)
(* and calls: how the words are laid out, its types, and that a count that *)
(* is returned without an error is exact.                                  *)
(***************************************************************************)
EXTENDS ShardedCluster, SetOpsProofs

-----------------------------------------------------------------------------
(* The shards *)

\* Lo and Hi are bounds of intervals that adjoin, in order, within the words.
LEMMA RangeFacts ==
  ASSUME NEW p \in 0..Shards, NEW q \in 0..Shards, p <= q
  PROVE  /\ Lo(p) \in Int /\ 0 <= Lo(p) /\ Lo(p) <= Lo(q) /\ Lo(q) <= Words
         /\ p < Shards => Hi(p) = Lo(p + 1)
         /\ Lo(0) = 0 /\ Lo(Shards) = Words
<1>1. Shards \in Nat \ {0} /\ Words \in Nat
  BY NodeAssumption, ShardAssumption
<1> DEFINE a == p * Words
           b == q * Words
           c == Shards * Words
<1>2. a \in Int /\ b \in Int /\ c \in Int /\ 0 <= a /\ a <= b /\ b <= c
  BY <1>1
<1>3. /\ a \div Shards \in Int /\ b \div Shards \in Int
      /\ a \div Shards <= b \div Shards /\ b \div Shards <= c \div Shards
      /\ 0 <= a \div Shards
  <2> HIDE DEF a, b, c
  <2> QED
    BY <1>1, <1>2
<1>4. c \div Shards = Words
  BY <1>1
<1>5. (0 * Words) \div Shards = 0
  BY <1>1
<1> QED
  BY <1>1, <1>3, <1>4, <1>5 DEF Lo, Hi

\* Every word belongs to exactly one shard, so to one node: a load stores each word
\* once and a gather counts each word once (sharded.go:49-66).
THEOREM EveryWordHasOneShard ==
  \A k \in 0..Words - 1 :
    \E p \in 0..Shards - 1 : /\ Lo(p) <= k /\ k < Hi(p)
                    /\ \A q \in 0..Shards - 1 : (Lo(q) <= k /\ k < Hi(q)) => q = p
<1> SUFFICES ASSUME NEW k \in 0..Words - 1
             PROVE  \E p \in 0..Shards - 1 : /\ Lo(p) <= k /\ k < Hi(p)
                                    /\ \A q \in 0..Shards - 1 : (Lo(q) <= k /\ k < Hi(q)) => q = p
  OBVIOUS
<1>1. Shards \in Nat \ {0} /\ Words \in Nat \ {0} /\ k \in Nat
  BY NodeAssumption, ShardAssumption
<1> DEFINE m == (k + 1) * Shards - 1
           p == m \div Words
<1>2. m \in Nat /\ m < Words * Shards
  <2>1. (k + 1) * Shards <= Words * Shards /\ (k + 1) * Shards >= 1
    BY <1>1
  <2> QED
    BY <1>1, <2>1
<1>3. p \in Int /\ Words * p <= m /\ m < Words * p + Words
  <2> HIDE DEF m
  <2> QED
    BY <1>1, <1>2
<1>4. p \in 0..Shards - 1
  <2> HIDE DEF p
  <2>1. Words * p < Words * Shards /\ Words * (p + 1) > 0
    BY <1>1, <1>2, <1>3
  <2>2. p < Shards
    BY <1>1, <1>3, <2>1
  <2>3. p + 1 > 0
    BY <1>1, <1>3, <2>1
  <2> QED
    BY <1>1, <1>3, <2>2, <2>3
<1>5. Lo(p) <= k
  <2> HIDE DEF p
  <2> DEFINE a == p * Words
             d == a \div Shards
  <2>1. a \in Int /\ a < (k + 1) * Shards
    BY <1>1, <1>3
  <2>2. d \in Int /\ Shards * d <= a
    <3> HIDE DEF a
    <3> QED
      BY <1>1, <2>1
  <2>3. Shards * d < Shards * (k + 1)
    <3> HIDE DEF a, d
    <3> QED
      BY <1>1, <2>1, <2>2
  <2>4. d < k + 1
    <3> HIDE DEF a, d
    <3> QED
      BY <1>1, <2>2, <2>3
  <2> QED
    BY <1>1, <2>2, <2>4 DEF Lo
<1>6. k < Hi(p)
  <2> HIDE DEF p
  <2> DEFINE a == (p + 1) * Words
             d == a \div Shards
  <2>1. a \in Int /\ a >= (k + 1) * Shards
    BY <1>1, <1>3
  <2>2. d \in Int /\ a < Shards * d + Shards
    <3> HIDE DEF a
    <3> QED
      BY <1>1, <2>1
  <2>3. Shards * (k + 1) < Shards * (d + 1)
    <3> HIDE DEF a, d
    <3> QED
      BY <1>1, <2>1, <2>2
  <2>4. k + 1 < d + 1
    <3> HIDE DEF a, d
    <3> QED
      BY <1>1, <2>2, <2>3
  <2> QED
    BY <1>1, <2>2, <2>4 DEF Hi
<1>7. ASSUME NEW q \in 0..Shards - 1, Lo(q) <= k, k < Hi(q)
      PROVE  q = p
  <2> HIDE DEF p
  <2>1. /\ p \in 0..Shards /\ q \in 0..Shards /\ p + 1 \in 0..Shards /\ q + 1 \in 0..Shards
        /\ p < Shards /\ q < Shards
    BY <1>1, <1>4
  <2>2. /\ Lo(p) \in Int /\ Lo(q) \in Int /\ Lo(p + 1) \in Int /\ Lo(q + 1) \in Int
        /\ Hi(p) = Lo(p + 1) /\ Hi(q) = Lo(q + 1)
    BY <2>1, RangeFacts
  <2>3. p + 1 <= q => Lo(p + 1) <= Lo(q)
    BY <2>1, RangeFacts
  <2>4. q + 1 <= p => Lo(q + 1) <= Lo(p)
    BY <2>1, RangeFacts
  <2> QED
    BY <1>1, <1>5, <1>6, <1>7, <2>1, <2>2, <2>3, <2>4
<1> QED
  BY <1>4, <1>5, <1>6, <1>7
-----------------------------------------------------------------------------
(* Slices *)

\* The words of shard s of a global set, if the shard is node k's.
Cut(global, k, s) ==
  IF Owner[s - 1] # k THEN <<>>
  ELSE [q \in 1..Hi(s - 1) - Lo(s - 1) |-> global[Lo(s - 1) + q - 1]]

LEMMA ShardRange ==
  ASSUME NEW s \in 1..Shards
  PROVE  /\ s - 1 \in 0..Shards - 1 /\ Owner[s - 1] \in Node /\ Lo(s - 1) \in Nat
         /\ Hi(s - 1) = Lo(s) /\ Lo(s) \in Nat /\ Lo(s - 1) <= Lo(s) /\ Lo(s) <= Words
         /\ Words \in Nat
<1>1. /\ s - 1 \in 0..Shards /\ s \in 0..Shards /\ s - 1 <= s /\ s - 1 < Shards
      /\ s - 1 \in 0..Shards - 1 /\ (s - 1) + 1 = s /\ Words \in Nat
  BY ShardAssumption, NodeAssumption
<1>2. /\ Lo(s - 1) \in Int /\ 0 <= Lo(s - 1) /\ Lo(s - 1) <= Lo(s) /\ Lo(s) <= Words
      /\ Hi(s - 1) = Lo((s - 1) + 1)
  BY <1>1, RangeFacts
<1>3. Lo(s) \in Int
  BY <1>1, RangeFacts
<1> QED
  BY <1>1, <1>2, <1>3, ShardAssumption

LEMMA CutType ==
  ASSUME NEW g \in Global, NEW k \in Node, NEW s \in 1..Shards
  PROVE  Cut(g, k, s) \in Seq(Word)
<1>1. CASE Owner[s - 1] # k
  BY <1>1 DEF Cut
<1>2. CASE Owner[s - 1] = k
  <2> DEFINE lo == Lo(s - 1)
             d == Hi(s - 1) - lo
  <2>1. lo \in Nat /\ d \in Nat /\ lo + d <= Words /\ Words \in Nat
    BY ShardRange
  <2> HIDE DEF lo, d
  <2>2. \A q \in 1..d : g[lo + q - 1] \in Word
    BY <2>1 DEF Global
  <2>3. [q \in 1..d |-> g[lo + q - 1]] \in Seq(Word)
    BY <2>1, <2>2, IsASeq
  <2> QED
    BY <1>2, <2>3 DEF Cut, lo, d
<1> QED
  BY <1>1, <1>2

\* The slices of the first shards, one after the other, as an equation.
LEMMA SliceEquation ==
  ASSUME NEW g \in Global, NEW k \in Node
  PROVE  \E up \in [0..Shards -> Seq(Word)] :
           /\ NodeSlice(g, k) = up[Shards]
           /\ up[0] = <<>>
           /\ \A s \in 1..Shards : up[s] = up[s - 1] \o Cut(g, k, s)
<1> DEFINE D == 0..Shards
           V == Seq(Word)
           body(f) == [s \in D |->
             IF s = 0 THEN <<>>
             ELSE f[s - 1] \o
                    (IF Owner[s - 1] # k THEN <<>>
                     ELSE [q \in 1..Hi(s - 1) - Lo(s - 1) |-> g[Lo(s - 1) + q - 1]])]
           step == [f \in [D -> V] |-> body(f)]
           rank == [s \in D |-> s]
           up == CHOOSE up : up = body(up)
<1>1. Shards \in Nat \ {0}
  BY ShardAssumption
<1>2. \A s \in D : s # 0 => s - 1 \in D /\ s \in 1..Shards
  BY <1>1
<1>3. \A f, s : s \in D => body(f)[s] = IF s = 0 THEN <<>> ELSE f[s - 1] \o Cut(g, k, s)
  <2> HIDE DEF D
  <2> QED
    BY DEF Cut
<1>4. \A f \in [D -> V], s \in D : body(f)[s] \in V
  <2> SUFFICES ASSUME NEW f \in [D -> V], NEW s \in D PROVE body(f)[s] \in V
    <3> HIDE DEF body, D
    <3> QED
      OBVIOUS
  <2>1. s # 0 => f[s - 1] \in Seq(Word) /\ Cut(g, k, s) \in Seq(Word)
    <3> HIDE DEF D
    <3> QED
      BY <1>2, CutType
  <2>2. s # 0 => f[s - 1] \o Cut(g, k, s) \in Seq(Word)
    <3> DEFINE u == f[s - 1]
               v == Cut(g, k, s)
    <3>1. s # 0 => u \in Seq(Word) /\ v \in Seq(Word)
      BY <2>1
    <3> HIDE DEF u, v
    <3>2. s # 0 => u \o v \in Seq(Word)
      BY <3>1
    <3> QED
      BY <3>2 DEF u, v
  <2>3. <<>> \in Seq(Word)
    OBVIOUS
  <2> HIDE DEF body, D
  <2> QED
    BY <1>3, <2>2, <2>3
<1>5. step \in [[D -> V] -> [D -> V]]
  <2>1. \A f \in [D -> V] : body(f) = [s \in D |-> body(f)[s]]
    OBVIOUS
  <2> HIDE DEF body, D
  <2> QED
    BY <1>4, <2>1
<1>6. rank \in [D -> Nat]
  BY <1>1
<1>7. \A f, h \in [D -> V], s \in D :
        (\A y \in D : rank[y] < rank[s] => f[y] = h[y]) => step[f][s] = step[h][s]
  <2> SUFFICES ASSUME NEW f \in [D -> V], NEW h \in [D -> V], NEW s \in D,
                      \A y \in D : rank[y] < rank[s] => f[y] = h[y]
               PROVE  step[f][s] = step[h][s]
    <3> HIDE DEF step, rank, D
    <3> QED
      OBVIOUS
  <2>1. s # 0 => f[s - 1] = h[s - 1]
    BY <1>1, <1>2
  <2>2. step[f] = body(f) /\ step[h] = body(h)
    <3> HIDE DEF body, D
    <3> QED
      OBVIOUS
  <2> HIDE DEF body, step, D
  <2> QED
    BY <1>3, <2>1, <2>2
<1>8. \E f : f = body(f)
  <2>1. \E f \in [D -> V] : f = step[f]
    <3> HIDE DEF D, step, rank, V
    <3>0. V # {}
      <4>1. <<>> \in V
        BY DEF V
      <4> QED
        BY <4>1
    <3>1. Recursive(D, V, step, rank)
      BY <1>5, <1>6, <1>7, <3>0 DEF Recursive
    <3>2. HasSolution(D, V, step)
      BY <3>1, Fixpoint
    <3> QED
      BY <3>2 DEF HasSolution
  <2>2. PICK f \in [D -> V] : f = step[f]
    BY <2>1
  <2>3. step[f] = body(f)
    <3> HIDE DEF body, D
    <3> QED
      BY <2>2
  <2> HIDE DEF body, step
  <2> QED
    BY <2>2, <2>3
<1>9. up = body(up)
  <2> HIDE DEF body
  <2> QED
    BY <1>8
<1>10. NodeSlice(g, k) = up[Shards]
  BY Zenon DEF NodeSlice
<1> HIDE DEF up
<1>11. ASSUME NEW s \in D
       PROVE  up[s] = IF s = 0 THEN <<>> ELSE up[s - 1] \o Cut(g, k, s)
  <2>1. up[s] = body(up)[s]
    <3> HIDE DEF body, D
    <3> QED
      BY <1>9
  <2> HIDE DEF body, D
  <2> QED
    BY <1>3, <2>1
<1>12. up[0] = <<>> /\ \A s \in 1..Shards : up[s] = up[s - 1] \o Cut(g, k, s)
  <2>1. 0 \in D /\ \A s \in 1..Shards : s \in D /\ s # 0
    BY <1>1
  <2> HIDE DEF D
  <2> QED
    BY <1>11, <2>1
<1>13. up \in [D -> V]
  <2> DEFINE S == {s \in Nat : s <= Shards => up[s] \in Seq(Word)}
  <2>1. 0 \in S
    <3>1. <<>> \in Seq(Word)
      OBVIOUS
    <3> QED
      BY <1>12, <3>1
  <2>2. ASSUME NEW s \in Nat, s \in S PROVE s + 1 \in S
    <3> SUFFICES ASSUME s + 1 <= Shards PROVE up[s + 1] \in Seq(Word)
      OBVIOUS
    <3>1. s + 1 \in 1..Shards /\ (s + 1) - 1 = s /\ up[s] \in Seq(Word)
      BY <1>1, <2>2
    <3>2. PICK n \in 1..Shards : n = s + 1 /\ n - 1 = s
      BY <3>1
    <3>3. up[n] = up[s] \o Cut(g, k, n) /\ Cut(g, k, n) \in Seq(Word)
      BY <1>12, <3>2, CutType
    <3>4. up[n] \in Seq(Word)
      <4> DEFINE u == up[s]
                 v == Cut(g, k, n)
      <4>1. u \in Seq(Word) /\ v \in Seq(Word)
        BY <3>1, <3>3
      <4> HIDE DEF u, v
      <4>2. u \o v \in Seq(Word)
        BY <4>1
      <4> QED
        BY <3>3, <4>2 DEF u, v
    <3> QED
      BY <3>2, <3>4
  <2>3. \A s \in Nat : s \in S
    <3> HIDE DEF S
    <3> QED
      BY <2>1, <2>2, Induction
  <2>4. \A s \in D : up[s] \in V
    BY <1>1, <2>3
  <2>5. up = [s \in D |-> up[s]]
    <3>1. body(up) = [s \in D |-> body(up)[s]]
      OBVIOUS
    <3> HIDE DEF body, D
    <3> QED
      BY <1>9, <3>1, Zenon
  <2> HIDE DEF D, V
  <2> QED
    BY <2>4, <2>5
<1> QED
  BY <1>10, <1>12, <1>13

\* The node of a word is the owner of its shard.
LEMMA HomeFacts ==
  ASSUME NEW q \in 0..Words - 1
  PROVE  /\ Home[q] \in Node
         /\ \A s \in 1..Shards : (Lo(s - 1) <= q /\ q < Hi(s - 1)) => Home[q] = Owner[s - 1]
<1>1. PICK k \in 0..Shards - 1 : /\ Lo(k) <= q /\ q < Hi(k)
                        /\ \A l \in 0..Shards - 1 : (Lo(l) <= q /\ q < Hi(l)) => l = k
  BY EveryWordHasOneShard
<1> DEFINE l == CHOOSE s \in 0..Shards - 1 : Lo(s) <= q /\ q < Hi(s)
<1>2. Home[q] = Owner[l]
  BY DEF Home
<1>3. l = k
  BY <1>1
<1> HIDE DEF l
<1>4. \A s \in 1..Shards : s - 1 \in 0..Shards - 1
  BY ShardAssumption
<1> QED
  BY <1>1, <1>2, <1>3, <1>4, ShardAssumption

\* ix numbers the words below w that belong to node k.
Numbers(ix, d, k, w) ==
  /\ ix \in [1..d -> 0..Words - 1]
  /\ \A p, q \in 1..d : ix[p] = ix[q] => p = q
  /\ \A q \in 0..Words - 1 : (q < w /\ Home[q] = k) <=> \E p \in 1..d : ix[p] = q

\* s holds the words of g that ix numbers.
Holds(s, g, ix, d) == Len(s) = d /\ \A p \in 1..d : s[p] = g[ix[p]]

\* The words of one more shard are numbered on.
LEMMA NumberOn ==
  ASSUME NEW k \in Node, NEW s \in 1..Shards, NEW d \in Nat, NEW ix,
         Numbers(ix, d, k, Lo(s - 1)), Owner[s - 1] = k,
         NEW e, e = Lo(s) - Lo(s - 1),
         NEW jx, jx = [p \in 1..d + e |-> IF p <= d THEN ix[p] ELSE Lo(s - 1) + (p - d) - 1]
  PROVE  d + e \in Nat /\ Numbers(jx, d + e, k, Lo(s))
<1> DEFINE lo == Lo(s - 1)
<1>1. lo \in Nat /\ e \in Nat /\ Lo(s) = lo + e /\ lo + e <= Words /\ Words \in Nat
  BY ShardRange
<1>2. \A q \in 0..Words - 1 : (lo <= q /\ q < lo + e) => Home[q] = k
  BY <1>1, ShardRange, HomeFacts
<1> HIDE DEF lo
<1>3. /\ ix \in [1..d -> 0..Words - 1]
      /\ \A p, q \in 1..d : ix[p] = ix[q] => p = q
      /\ \A q \in 0..Words - 1 : (q < lo /\ Home[q] = k) <=> \E p \in 1..d : ix[p] = q
  BY DEF Numbers, lo
<1>4. jx = [p \in 1..d + e |-> IF p <= d THEN ix[p] ELSE lo + (p - d) - 1]
  BY DEF lo
<1>5. /\ \A p \in 1..d : p \in 1..d + e /\ jx[p] = ix[p] /\ jx[p] \in 0..Words - 1 /\ jx[p] < lo
      /\ \A p \in 1..d + e : p \notin 1..d =>
           /\ jx[p] = lo + (p - d) - 1 /\ jx[p] \in 0..Words - 1
           /\ lo <= jx[p] /\ jx[p] < lo + e
  <2>1. \A p \in 1..d : p \in 1..d + e /\ jx[p] = ix[p]
    BY <1>1, <1>4
  <2>2. \A p \in 1..d : ix[p] \in 0..Words - 1 /\ ix[p] < lo
    BY <1>3
  <2>3. ASSUME NEW p \in 1..d + e, p \notin 1..d
        PROVE  /\ jx[p] = lo + (p - d) - 1 /\ jx[p] \in 0..Words - 1
               /\ lo <= jx[p] /\ jx[p] < lo + e
    <3>1. p \in Nat /\ p > d /\ p <= d + e
      BY <1>1, <2>3
    <3>2. jx[p] = lo + (p - d) - 1
      BY <1>4, <3>1
    <3> QED
      BY <1>1, <3>1, <3>2
  <2> QED
    BY <2>1, <2>2, <2>3
<1>10. \A p \in 1..d + e : jx[p] \in Int /\ jx[p] < lo + e
  <2> SUFFICES ASSUME NEW p \in 1..d + e PROVE jx[p] \in Int /\ jx[p] < lo + e
    OBVIOUS
  <2>1. jx[p] \in 0..Words - 1 /\ (jx[p] < lo \/ jx[p] < lo + e)
    BY <1>5
  <2> QED
    BY <1>1, <2>1
<1>6. jx \in [1..d + e -> 0..Words - 1]
  <2>1. \A p \in 1..d + e : jx[p] \in 0..Words - 1
    BY <1>5
  <2>2. jx = [p \in 1..d + e |-> jx[p]]
    BY <1>4
  <2> QED
    BY <2>1, <2>2
<1>7. ASSUME NEW p \in 1..d + e, NEW q \in 1..d + e, jx[p] = jx[q] PROVE p = q
  <2>1. CASE p \in 1..d /\ q \in 1..d
    BY <1>3, <1>5, <1>7, <2>1
  <2>2. CASE p \notin 1..d /\ q \notin 1..d
    BY <1>1, <1>5, <1>7, <2>2, SMTT(30)
  <2>3. CASE p \in 1..d /\ q \notin 1..d
    <3>1. jx[p] < lo /\ lo <= jx[q] /\ jx[p] \in Int /\ jx[q] \in Int
      BY <1>5, <1>10, <2>3, Zenon
    <3> QED
      BY <1>1, <1>7, <3>1
  <2>4. CASE p \notin 1..d /\ q \in 1..d
    <3>1. jx[q] < lo /\ lo <= jx[p] /\ jx[p] \in Int /\ jx[q] \in Int
      BY <1>5, <1>10, <2>4, Zenon
    <3> QED
      BY <1>1, <1>7, <3>1
  <2> QED
    BY <2>1, <2>2, <2>3, <2>4
<1>8. ASSUME NEW q \in 0..Words - 1
      PROVE  (q < lo + e /\ Home[q] = k) <=> \E p \in 1..d + e : jx[p] = q
  <2>1. CASE q < lo
    <3>1. (\E p \in 1..d : ix[p] = q) <=> \E p \in 1..d + e : jx[p] = q
      BY <1>1, <1>5, <2>1
    <3>2. q < lo + e
      BY <1>1, <2>1
    <3> QED
      BY <1>3, <2>1, <3>1, <3>2
  <2>2. CASE ~(q < lo) /\ q < lo + e
    <3> DEFINE p == d + q - lo + 1
    <3>1. p \in 1..d + e /\ p \notin 1..d /\ lo + (p - d) - 1 = q
      BY <1>1, <2>2
    <3> HIDE DEF p
    <3>2. jx[p] = q
      BY <1>5, <3>1
    <3> QED
      BY <1>1, <1>2, <2>2, <3>1, <3>2
  <2>3. CASE ~(q < lo + e)
    <3> QED
      BY <1>1, <1>10, <2>3
  <2> QED
    BY <2>1, <2>2, <2>3
<1> QED
  BY <1>1, <1>6, <1>7, <1>8, SMTT(30) DEF Numbers

\* Another node's shard adds nothing to number.
LEMMA NumberNothing ==
  ASSUME NEW k \in Node, NEW s \in 1..Shards, NEW d \in Nat, NEW ix,
         Numbers(ix, d, k, Lo(s - 1)), Owner[s - 1] # k
  PROVE  Numbers(ix, d, k, Lo(s))
<1>1. Lo(s - 1) \in Nat /\ Lo(s) \in Nat /\ Lo(s - 1) <= Lo(s) /\ Hi(s - 1) = Lo(s)
  BY ShardRange
<1>2. \A q \in 0..Words - 1 : (Lo(s - 1) <= q /\ q < Lo(s)) => Home[q] # k
  BY <1>1, HomeFacts
<1>3. \A q \in 0..Words - 1 : (q < Lo(s) /\ Home[q] = k) <=> (q < Lo(s - 1) /\ Home[q] = k)
  BY <1>1, <1>2, NodeAssumption
<1> QED
  BY <1>3 DEF Numbers

\* The slices of a node hold the words of its shards, every one at one place, and
\* that is the same place in every set: what aligns a stored set and a query.
LEMMA Layout ==
  ASSUME NEW k \in Node
  PROVE  \E d \in Nat : \E ix :
           /\ Numbers(ix, d, k, Words)
           /\ \A g \in Global : NodeSlice(g, k) \in Seq(Word) /\ Holds(NodeSlice(g, k), g, ix, d)
<1> DEFINE Eq(g, up) == /\ up \in [0..Shards -> Seq(Word)]
                        /\ NodeSlice(g, k) = up[Shards]
                        /\ up[0] = <<>>
                        /\ \A s \in 1..Shards : up[s] = up[s - 1] \o Cut(g, k, s)
           Up == [g \in Global |-> CHOOSE up : Eq(g, up)]
<1>1. \A g \in Global : Eq(g, Up[g])
  <2>1. \A g \in Global : \E up : Eq(g, up)
    BY SliceEquation
  <2> HIDE DEF Eq
  <2> QED
    BY <2>1
<1> HIDE DEF Up
<1>2. Shards \in Nat \ {0} /\ Words \in Nat
  BY ShardAssumption, NodeAssumption
<1> DEFINE At(s, d, ix) == Numbers(ix, d, k, Lo(s)) /\ \A g \in Global : Holds(Up[g][s], g, ix, d)
           S == {s \in Nat : s <= Shards => \E d \in Nat : \E ix : At(s, d, ix)}
<1>3. 0 \in S
  <2> DEFINE ix == [p \in 1..0 |-> 0]
  <2>1. Lo(0) = 0
    BY <1>2, RangeFacts
  <2>2. 1..0 = {}
    OBVIOUS
  <2>3. Numbers(ix, 0, k, Lo(0))
    BY <1>2, <2>1, <2>2 DEF Numbers
  <2>4. \A g \in Global : Holds(Up[g][0], g, ix, 0)
    BY <1>1, <2>2 DEF Holds
  <2> HIDE DEF ix
  <2> QED
    BY <2>3, <2>4
<1>4. ASSUME NEW n \in Nat, n \in S PROVE n + 1 \in S
  <2> SUFFICES ASSUME n + 1 <= Shards PROVE \E d \in Nat : \E ix : At(n + 1, d, ix)
    OBVIOUS
  <2>1. PICK s \in 1..Shards : s = n + 1 /\ s - 1 = n
    BY <1>2
  <2>2. \E d \in Nat : \E ix : At(s - 1, d, ix)
    <3> HIDE DEF At
    <3> QED
      BY <1>2, <1>4, <2>1
  <2>3. PICK d \in Nat : \E ix : At(s - 1, d, ix)
    <3> HIDE DEF At
    <3> QED
      BY <2>2
  <2>4. PICK ix : At(s - 1, d, ix)
    <3> HIDE DEF At
    <3> QED
      BY <2>3
  <2>5. Numbers(ix, d, k, Lo(s - 1)) /\ \A g \in Global : Holds(Up[g][s - 1], g, ix, d)
    BY <2>4
  <2>6. \A g \in Global : /\ Up[g][s] = Up[g][s - 1] \o Cut(g, k, s)
                          /\ Up[g][s - 1] \in Seq(Word) /\ Cut(g, k, s) \in Seq(Word)
    <3> SUFFICES ASSUME NEW g \in Global
                 PROVE  /\ Up[g][s] = Up[g][s - 1] \o Cut(g, k, s)
                        /\ Up[g][s - 1] \in Seq(Word) /\ Cut(g, k, s) \in Seq(Word)
      OBVIOUS
    <3>1. Eq(g, Up[g])
      BY <1>1
    <3>2. s - 1 \in 0..Shards
      BY <1>2
    <3> QED
      BY <3>1, <3>2, CutType
  <2>7. CASE Owner[s - 1] # k
    <3>1. \A g \in Global : Up[g][s] = Up[g][s - 1]
      <4> SUFFICES ASSUME NEW g \in Global PROVE Up[g][s] = Up[g][s - 1]
        OBVIOUS
      <4>1. Cut(g, k, s) = <<>>
        BY <2>7 DEF Cut
      <4> DEFINE u == Up[g][s - 1]
      <4>2. u \in Seq(Word) /\ Up[g][s] = u \o <<>>
        BY <2>6, <4>1
      <4> HIDE DEF u
      <4>3. u \o <<>> = u
        BY <4>2
      <4> QED
        BY <4>2, <4>3 DEF u
    <3>2. At(s, d, ix)
      BY <2>5, <2>7, <3>1, NumberNothing
    <3> HIDE DEF At
    <3> QED
      BY <2>1, <3>2
  <2>8. CASE Owner[s - 1] = k
    <3> DEFINE lo == Lo(s - 1)
               e == Lo(s) - lo
               jx == [p \in 1..d + e |-> IF p <= d THEN ix[p] ELSE lo + (p - d) - 1]
    <3>1. lo \in Nat /\ e \in Nat /\ lo + e <= Words /\ Hi(s - 1) = lo + e
      BY ShardRange
    <3>2. d + e \in Nat /\ Numbers(jx, d + e, k, Lo(s))
      BY <2>5, <2>8, NumberOn
    <3>3. ASSUME NEW g \in Global PROVE Holds(Up[g][s], g, jx, d + e)
      <4> DEFINE u == Up[g][s - 1]
                 v == Cut(g, k, s)
      <4>1. /\ u \in Seq(Word) /\ v \in Seq(Word) /\ Up[g][s] = u \o v
            /\ Len(u) = d /\ \A p \in 1..d : u[p] = g[ix[p]]
        BY <2>5, <2>6 DEF Holds
      <4>2. v = [q \in 1..e |-> g[lo + q - 1]]
        BY <2>8, <3>1 DEF Cut
      <4>3. Len(v) = e /\ \A q \in 1..e : v[q] = g[lo + q - 1]
        <5> HIDE DEF v, e, lo
        <5> QED
          BY <3>1, <4>1, <4>2
      <4> HIDE DEF u, v
      <4>4. Len(u \o v) = d + e
        <5> HIDE DEF e, lo
        <5>1. Len(u \o v) = Len(u) + Len(v)
          BY <4>1, ConcatProperties
        <5> QED
          BY <4>1, <4>3, <5>1
      <4>5. ASSUME NEW p \in 1..d + e PROVE (u \o v)[p] = g[jx[p]]
        <5>1. CASE p <= d
          <6>1. p \in 1..d /\ (u \o v)[p] = u[p]
            BY <3>1, <4>1, <4>3, <5>1
          <6>2. jx[p] = ix[p]
            BY <5>1
          <6> QED
            BY <4>1, <6>1, <6>2
        <5>2. CASE ~(p <= d)
          <6> HIDE DEF e, lo
          <6>0. p \in Nat /\ p > d /\ p <= d + e
            BY <3>1, <5>2
          <6>1. p - d \in 1..e /\ (u \o v)[p] = v[p - d]
            <7>1. d \in Nat /\ e \in Nat /\ Len(u) = d /\ Len(v) = e
              BY <2>5, <3>1, <4>1, <4>3
            <7>2. p - d \in 1..e /\ p \in 1..Len(u) + Len(v)
              BY <6>0, <7>1
            <7>3. (u \o v)[p] = IF p <= Len(u) THEN u[p] ELSE v[p - Len(u)]
              BY <4>1, <7>2, ConcatProperties
            <7> QED
              BY <6>0, <7>1, <7>2, <7>3
          <6>2. jx[p] = lo + (p - d) - 1
            BY <5>2
          <6> HIDE DEF jx
          <6> QED
            BY <4>3, <6>1, <6>2
        <5> QED
          BY <5>1, <5>2
      <4> HIDE DEF jx, e
      <4> QED
        BY <4>1, <4>4, <4>5 DEF Holds
    <3>4. At(s, d + e, jx)
      <4> HIDE DEF jx, e
      <4> QED
        BY <3>2, <3>3
    <3> HIDE DEF At, jx, e
    <3> QED
      BY <2>1, <3>2, <3>4
  <2> QED
    BY <2>7, <2>8
<1>5. \A n \in Nat : n \in S
  <2> HIDE DEF S
  <2> QED
    BY <1>3, <1>4, Induction
<1>6. PICK d \in Nat : \E ix : At(Shards, d, ix)
  <2> HIDE DEF At
  <2> QED
    BY <1>2, <1>5
<1>7. PICK ix : At(Shards, d, ix)
  <2> HIDE DEF At
  <2> QED
    BY <1>6
<1>8. Lo(Shards) = Words
  BY <1>2, RangeFacts
<1>9. \A g \in Global : NodeSlice(g, k) = Up[g][Shards] /\ Up[g][Shards] \in Seq(Word)
  BY <1>1, <1>2
<1> QED
  BY <1>7, <1>8, <1>9

-----------------------------------------------------------------------------
(* Types *)

Msg == [op : {"load", "stored", "query"}, name : Name, with : Name, words : Seq(Word),
        set : Global]
Goroutine ==
  {t \in [node : Node, serial : Nat, msg : Msg, at : {"write", "header", "body"},
          len : 0..MaxMsg, got : Seq(Bytes)] : Len(t.got) <= t.len}
Old == [of : Client, serial : Nat, queue : Seq(Msg)]
Result == [node : Node, ok : BOOLEAN, count : Nat]

\* What TypeOK needs of the variables it does not mention, to be inductive.
Control ==
  /\ inbox \in [Client -> [Node -> Seq(Msg)]] /\ late \in [Node -> SUBSET Old]
  /\ serial \in [Client -> Nat] /\ budget \in Budget
  /\ tasks \in [Client -> SUBSET Goroutine]
  /\ results \in [Client -> Seq(Result)]
  /\ value \in [Name -> SUBSET Global]
  /\ since \in [Client -> SUBSET Global]
  /\ \A c \in Client : pc[c] \in {"loading", "gathering"} => call[c] \in Call
  /\ \A c \in Client : pc[c] = "loading" => since[c] # {} /\ serial[c] > 0

TInv == TypeOK /\ Control

\* Replies carry naturals: the bits two slices share are finitely many.
LEMMA AndCountType ==
  ASSUME NEW s \in Seq(Word), NEW t \in Seq(Word)
  PROVE  AndCount(s, t) \in Nat
<1> DEFINE common == {k \in DOMAIN s : k \in DOMAIN t}
           S == {p \in common \X Bit : p[2] \in s[p[1]] /\ p[2] \in t[p[1]]}
<1>1. IsFiniteSet(DOMAIN s)
  <2>1. Len(s) \in Nat /\ DOMAIN s = 1..Len(s)
    BY LenProperties
  <2> QED
    BY <2>1, FS_Interval
<1>2. common \in SUBSET DOMAIN s
  OBVIOUS
<1>3. IsFiniteSet(common)
  BY <1>1, <1>2, FS_Subset
<1>4. IsFiniteSet(common \X Bit)
  BY <1>3, FS_Product, NodeAssumption
<1>5. S \in SUBSET (common \X Bit)
  OBVIOUS
<1>6. IsFiniteSet(S)
  BY <1>4, <1>5, FS_Subset
<1>7. Cardinality(S) \in Nat
  BY <1>6, FS_CardinalityType
<1> QED
  BY <1>7 DEF AndCount

\* A request is answered with twelve bytes.
LEMMA ReplyType ==
  ASSUME TypeOK, NEW k \in Node, NEW r \in Msg
  PROVE  Reply(Count(k, r)) \in Seq(Bytes)
<1>1. sets[k][r.name] \in Seq(Word) /\ sets[k][r.with] \in Seq(Word) /\ r.words \in Seq(Word)
  BY DEF TypeOK, NodeTypeOK, Msg
<1>2. /\ AndCount(sets[k][r.name], sets[k][r.with]) \in Nat
      /\ AndCount(sets[k][r.name], r.words) \in Nat
  BY <1>1, AndCountType
<1>3. Count(k, r) \in Nat
  BY <1>2 DEF Count, Msg
<1>4. \A i \in 1..12 : [at |-> i, count |-> Count(k, r)] \in Bytes
  BY <1>3 DEF Bytes
<1>5. [i \in 1..12 |-> [at |-> i, count |-> Count(k, r)]] \in Seq(Bytes)
  BY <1>4, IsASeq
<1> QED
  BY <1>5 DEF Reply

\* A node's slice of a global set is a sequence of words.
LEMMA SliceType ==
  ASSUME NEW g \in Global, NEW p \in Node
  PROVE  NodeSlice(g, p) \in Seq(Word)
BY Layout

LEMMA MessageType ==
  ASSUME NEW r \in Call, NEW words \in Seq(Word)
  PROVE  Message(r, words) \in Msg
BY ClientAssumption DEF Message, Msg

LEMMA MaxMsgType == MaxMsg \in Nat /\ 8 <= MaxMsg
BY SMT DEF MaxMsg

LEMMA TaskType ==
  ASSUME NEW c \in Client, NEW k \in Node, NEW msg \in Msg, serial'[c] \in Nat
  PROVE  Task(c, k, msg) \in Goroutine /\ Task(c, k, msg).serial = serial'[c]
<1>1. <<>> \in Seq(Bytes) /\ Len(<<>>) <= 0
  OBVIOUS
<1>2. 0 \in 0..MaxMsg
  BY MaxMsgType
<1> QED
  BY <1>1, <1>2 DEF Task, Goroutine

LEMMA EmptyType == Empty \in Global /\ Global # {}
<1>1. Empty \in Global
  BY DEF Empty, Global, Word
<1> QED
  BY <1>1

\* A budget says what each of finitely many calls of a client may be.
LEMMA BudgetType ==
  ASSUME budget \in Budget
  PROVE  \A c \in Client : Len(budget.calls[c]) \in Nat
<1>1. budget.calls \in [Client -> Seq(SUBSET Call)]
  BY ClientAssumption
<1>2. \A c \in Client : budget.calls[c] \in Seq(SUBSET Call)
  BY <1>1
<1> QED
  BY <1>2, LenProperties

LEMMA InitTypes == Init => TInv
<1> SUFFICES ASSUME Init PROVE TInv
  OBVIOUS
<1> USE DEF Init, ClientInit, NodeInit
<1>1. NodeTypeOK
  BY DEF NodeTypeOK
<1>2. \A c \in Client : Len(budget.calls[c]) \in Nat
  BY BudgetType
<1>3. TypeOK
  <2>1. /\ pc \in [Client -> Labels] /\ call \in [Client -> Call \cup {NoCall}]
        /\ todo \in [Client -> SUBSET Node]
    BY DEF Labels
  <2>2. \A c \in Client : serial[c] \in 0..Len(budget.calls[c])
    BY <1>2
  <2>3. \A c \in Client : tasks[c] = {}
    OBVIOUS
  <2>4. DOMAIN value = Name /\ \A y \in Name : value[y] # {} /\ value[y] \subseteq Global
    BY EmptyType
  <2> QED
    BY <1>1, <2>1, <2>2, <2>3, <2>4 DEF TypeOK
<1>4. Control
  BY EmptyType DEF Control
<1> QED
  BY <1>3, <1>4 DEF TInv

\* Serials of goroutines are those of calls that began.
Serials == \A c \in Client : \A t \in tasks[c] : t.serial \in 1..serial[c]

\* TInv, but for the goroutines' share in TypeOK, which follows from these two.
LEMMA SplitTypes ==
  TInv <=> /\ NodeTypeOK /\ Control /\ Serials
           /\ pc \in [Client -> Labels] /\ \A c \in Client : serial[c] \in 0..Len(budget.calls[c])
           /\ call \in [Client -> Call \cup {NoCall}]
           /\ todo \in [Client -> SUBSET Node]
           /\ \A x \in Name : value[x] # {}
<1>1. Control => \A c \in Client : \A t \in tasks[c] :
           t.node \in Node /\ t.len \in 0..MaxMsg /\ Len(t.got) <= t.len
  BY DEF Control, Goroutine
<1>2. Control => DOMAIN value = Name /\ \A x \in Name : value[x] \subseteq Global
  BY DEF Control
<1> QED
  BY <1>1, <1>2 DEF TInv, TypeOK, Serials

\* A message added to or taken from one queue.
LEMMA QueueType ==
  ASSUME NEW S, NEW q \in [Client -> [Node -> S]], NEW c \in Client, NEW k \in Node, NEW v \in S
  PROVE  [q EXCEPT ![c][k] = v] \in [Client -> [Node -> S]]
OBVIOUS

\* A goroutine that moves on keeps its types, and one that ends delivers a result.
LEMMA AdvanceTypes ==
  ASSUME TInv, NEW c \in Client, NEW t \in tasks[c],
         NEW at \in {"write", "header", "body"}, NEW len \in 0..MaxMsg,
         NEW got \in Seq(Bytes), Len(got) <= len,
         Advance(c, t, at, len, got), serial' = serial
  PROVE  tasks' \in [Client -> SUBSET Goroutine] /\ results' \in [Client -> Seq(Result)]
         /\ Serials'
<1>1. t \in Goroutine /\ tasks[c] \in SUBSET Goroutine
  BY DEF TInv, Control
<1>2. [t EXCEPT !.at = at, !.len = len, !.got = got] \in Goroutine
  BY <1>1, MaxMsgType DEF Goroutine
<1>3. tasks' = [tasks EXCEPT ![c] =
                   (@ \ {t}) \cup {[t EXCEPT !.at = at, !.len = len, !.got = got]}]
      /\ results' = results
  BY DEF Advance
<1>4. Serials'
  <2>1. [t EXCEPT !.at = at, !.len = len, !.got = got].serial = t.serial
    BY <1>1 DEF Goroutine
  <2>2. ASSUME NEW d \in Client, NEW u \in tasks'[d] PROVE u.serial \in 1..serial[d]
    BY <1>3, <2>1, SplitTypes DEF Serials, Control
  <2> QED
    BY <2>2 DEF Serials
<1> QED
  BY <1>1, <1>2, <1>3, <1>4 DEF TInv, Control

LEMMA DeliverTypes ==
  ASSUME TInv, NEW c \in Client, NEW t \in tasks[c], NEW ok \in BOOLEAN, NEW k \in Nat,
         Deliver(c, t, ok, k), serial' = serial
  PROVE  tasks' \in [Client -> SUBSET Goroutine] /\ results' \in [Client -> Seq(Result)]
         /\ Serials'
<1>1. t \in Goroutine /\ results[c] \in Seq(Result)
  BY DEF TInv, Control
<1>2. [node |-> t.node, ok |-> ok, count |-> k] \in Result
  BY <1>1 DEF Goroutine, Result
<1>3. Append(results[c], [node |-> t.node, ok |-> ok, count |-> k]) \in Seq(Result)
  BY <1>1, <1>2
<1>4. Serials'
  BY SplitTypes DEF Deliver, Serials, Control
<1> QED
  BY <1>1, <1>3, <1>4 DEF Deliver, TInv, Control

\* The same for the state after a step.
LEMMA JoinTypes ==
  ASSUME NodeTypeOK', Control', Serials',
         pc' \in [Client -> Labels], \A c \in Client : serial'[c] \in 0..Len(budget'.calls[c]),
         call' \in [Client -> Call \cup {NoCall}],
         todo' \in [Client -> SUBSET Node],
         \A x \in Name : value'[x] # {}
  PROVE  TInv'
<1>1. \A c \in Client : \A t \in tasks'[c] :
           t.node \in Node /\ t.len \in 0..MaxMsg /\ Len(t.got) <= t.len
  BY DEF Control, Goroutine
<1>2. DOMAIN value' = Name /\ \A x \in Name : value'[x] \subseteq Global
  BY DEF Control
<1> QED
  BY <1>1, <1>2 DEF TInv, TypeOK, Serials

\* Dial leaves no goroutines and no bytes.
LEMMA DialTypes ==
  ASSUME TInv, NEW c \in Client, Dial(c)
  PROVE  TInv'
<1> USE SplitTypes DEF Dial, historyVars, callVars
<1>1. NodeTypeOK'
  BY DEF NodeTypeOK
<1>5. late' \in [Node -> SUBSET Old]
  <2>1. \A k \in Node : Leftover(c, k, serial[c]) \in SUBSET Old
    BY DEF Leftover, Old, Control
  <2> QED
    BY <2>1 DEF Control
<1>2. Control'
  BY <1>5 DEF Control
<1>3. Serials'
  BY DEF Serials, Control
<1>4. /\ pc' \in [Client -> Labels] /\ \A d \in Client : serial'[d] \in 0..Len(budget'.calls[d])
      /\ call' \in [Client -> Call \cup {NoCall}]
      /\ todo' \in [Client -> SUBSET Node]
      /\ \A x \in Name : value'[x] # {}
  BY DEF Labels
<1> QED
  BY <1>1, <1>2, <1>3, <1>4, JoinTypes

\* A call that begins is counted, and its name and set are those of a call.
LEMMA BeginTypes ==
  ASSUME TInv, NEW c \in Client, NEW r \in Call, NEW l \in {"loading", "gathering"},
         Begin(c, r, l), budget' = budget
  PROVE  /\ NodeTypeOK'
         /\ inbox' \in [Client -> [Node -> Seq(Msg)]] /\ late' = late
         /\ pc' \in [Client -> Labels] /\ pc'[c] = l
         /\ \A d \in Client \ {c} : pc'[d] = pc[d] /\ call'[d] = call[d]
         /\ serial' \in [Client -> Nat]
         /\ serial'[c] = serial[c] + 1 /\ \A d \in Client \ {c} : serial'[d] = serial[d]
         /\ \A d \in Client : serial'[d] \in 0..Len(budget'.calls[d])
         /\ call' \in [Client -> Call \cup {NoCall}] /\ call'[c] = r
         /\ results' \in [Client -> Seq(Result)]
<1> USE DEF Begin, nodeVars
<1>1. NodeTypeOK'
  BY SplitTypes DEF NodeTypeOK
<1>2. pc \in [Client -> Labels] /\ call \in [Client -> Call \cup {NoCall}]
  BY SplitTypes
<1>3. serial \in [Client -> Nat] /\ results \in [Client -> Seq(Result)]
      /\ inbox \in [Client -> [Node -> Seq(Msg)]]
  BY DEF TInv, Control
<1>4. \A d \in Client : serial[d] \in 0..Len(budget.calls[d]) /\ Len(budget.calls[d]) \in Nat
  BY SplitTypes, BudgetType DEF Control
<1>5. \A d \in Client : serial'[d] \in 0..Len(budget'.calls[d])
  BY <1>3, <1>4
<1> QED
  BY <1>1, <1>2, <1>3, <1>5 DEF Labels

LEMMA BeginLoadTypes ==
  ASSUME TInv, NEW c \in Client, NEW r \in Call, BeginLoad(c, r)
  PROVE  TInv'
<1>1. Begin(c, r, "loading") /\ budget' = budget /\ tasks' = tasks
  BY DEF BeginLoad
<1>2. r.name \in Name /\ r.set \in Global
  BY ClientAssumption
<1>3. \A e \in Client : Loading(e, r.name) => call[e].set \in Global
  BY ClientAssumption, SplitTypes DEF Loading, Control
<1>4. value' \in [Name -> SUBSET Global] /\ \A x \in Name : value'[x] # {}
  BY <1>2, SplitTypes DEF Control, BeginLoad
<1>5. /\ since' \in [Client -> SUBSET Global]
      /\ since'[c] # {} /\ \A d \in Client : since[d] # {} => since'[d] # {}
  <2>1. since' = [d \in Client |->
           IF d = c THEN {r.set} \cup Underway(r.name) \cup
                         {call[e].set : e \in {e \in Client : Loading(e, r.name)}}
           ELSE IF Loading(d, r.name) THEN since[d] \cup {r.set} ELSE since[d]]
    BY DEF BeginLoad
  <2>2. {call[e].set : e \in {e \in Client : Loading(e, r.name)}} \in SUBSET Global
    BY <1>3
  <2>3. since \in [Client -> SUBSET Global]
    BY DEF TInv, Control
  <2>4. Underway(r.name) \in SUBSET Global
    BY <1>2, SplitTypes DEF Underway, Control
  <2> QED
    BY <1>2, <2>1, <2>2, <2>3, <2>4
<1>9. /\ NodeTypeOK'
      /\ inbox' \in [Client -> [Node -> Seq(Msg)]] /\ late' = late
      /\ pc' \in [Client -> Labels] /\ pc'[c] = "loading"
      /\ \A d \in Client \ {c} : pc'[d] = pc[d] /\ call'[d] = call[d]
      /\ serial' \in [Client -> Nat]
      /\ serial'[c] = serial[c] + 1 /\ \A d \in Client \ {c} : serial'[d] = serial[d]
      /\ \A d \in Client : serial'[d] \in 0..Len(budget'.calls[d])
      /\ call' \in [Client -> Call \cup {NoCall}] /\ call'[c] = r
      /\ results' \in [Client -> Seq(Result)]
  BY <1>1, BeginTypes
<1>10. ASSUME NEW d \in Client
       PROVE  /\ serial'[d] \in Nat /\ serial[d] \in Nat /\ serial[d] <= serial'[d]
              /\ d = c => serial'[d] > 0
  <2>1. serial[d] \in Nat /\ serial'[d] \in Nat
    BY <1>9, SplitTypes DEF Control
  <2>2. CASE d = c
    BY <2>1, <2>2, <1>9
  <2>3. CASE d # c
    BY <2>1, <2>3, <1>9
  <2> QED
    BY <2>1, <2>2, <2>3
<1>6. Control'
  <2>1. ASSUME NEW d \in Client, pc'[d] \in {"loading", "gathering"} PROVE call'[d] \in Call
    BY <1>9, <2>1, SplitTypes DEF Control
  <2>2. ASSUME NEW d \in Client, pc'[d] = "loading" PROVE since'[d] # {} /\ serial'[d] > 0
    <3>1. CASE d = c
      BY <1>5, <1>10, <3>1
    <3>2. CASE d # c
      <4>1. pc[d] = "loading" /\ since[d] # {} /\ serial[d] > 0
        BY <1>9, <2>2, <3>2, SplitTypes DEF Control
      <4> QED
        BY <1>5, <1>10, <4>1
    <3> QED
      BY <3>1, <3>2
  <2> QED
    BY <1>1, <1>4, <1>5, <1>9, <2>1, <2>2, SplitTypes DEF Control
<1>7. Serials'
  BY <1>1, <1>10, SplitTypes DEF Serials, Control
<1>8. todo' \in [Client -> SUBSET Node]
  BY SplitTypes DEF BeginLoad
<1> QED
  BY <1>4, <1>6, <1>7, <1>8, <1>9, JoinTypes

LEMMA GatherTypes ==
  ASSUME TInv, NEW c \in Client, NEW r \in Call, Gather(c, r)
  PROVE  TInv'
<1> DEFINE slices == [k \in Node |-> NodeSlice(r.set, k)]
           msg(k) == Message(r, IF r.op = "query" THEN slices[k] ELSE <<>>)
           new == {Task(c, k, msg(k)) : k \in Node}
<1>1. /\ Begin(c, r, "gathering")
      /\ tasks' = [tasks EXCEPT ![c] = @ \cup new]
      /\ UNCHANGED <<todo, budget, value, since>>
  BY DEF Gather, BeginGather
<1>2. \A k \in Node : msg(k) \in Msg
  <2> TAKE k \in Node
  <2>1. r.set \in Global
    BY ClientAssumption
  <2>2. slices[k] \in Seq(Word)
    BY <2>1, SliceType
  <2>3. <<>> \in Seq(Word)
    OBVIOUS
  <2> QED
    BY <2>2, <2>3, MessageType
<1>3. new \in SUBSET Goroutine /\ \A t \in new : t.serial = serial'[c]
  <2> HIDE DEF msg
  <2>1. serial'[c] \in Nat
    BY <1>1, BeginTypes
  <2>2. \A k \in Node : Task(c, k, msg(k)) \in Goroutine /\ Task(c, k, msg(k)).serial = serial'[c]
    BY <1>2, <2>1, TaskType
  <2> QED
    BY <2>2
<1> HIDE DEF new
<1>4. tasks \in [Client -> SUBSET Goroutine]
  BY DEF TInv, Control
<1>9. /\ NodeTypeOK'
      /\ inbox' \in [Client -> [Node -> Seq(Msg)]] /\ late' = late
      /\ pc' \in [Client -> Labels] /\ pc'[c] = "gathering"
      /\ \A d \in Client \ {c} : pc'[d] = pc[d] /\ call'[d] = call[d]
      /\ serial' \in [Client -> Nat]
      /\ serial'[c] = serial[c] + 1 /\ \A d \in Client \ {c} : serial'[d] = serial[d]
      /\ \A d \in Client : serial'[d] \in 0..Len(budget'.calls[d])
      /\ call' \in [Client -> Call \cup {NoCall}] /\ call'[c] = r
      /\ results' \in [Client -> Seq(Result)]
  BY <1>1, BeginTypes
<1>5. Control'
  BY <1>1, <1>3, <1>4, <1>9, SplitTypes DEF Control
<1>6. Serials'
  BY <1>1, <1>3, <1>4, <1>9, SplitTypes DEF Serials, Control
<1> QED
  BY <1>1, <1>5, <1>6, <1>9, SplitTypes, JoinTypes

LEMMA LoadNextTypes ==
  ASSUME TInv, NEW c \in Client, \E n \in todo[c] : LoadNext(c, n, NodeSlice(call[c].set, n))
  PROVE  TInv'
<1>1. PICK k \in todo[c] : LoadNext(c, k, NodeSlice(call[c].set, k))
  OBVIOUS
<1> DEFINE t == Task(c, k, Message(call[c], NodeSlice(call[c].set, k)))
<1>2. /\ serial' = serial /\ pc[c] = "loading"
      /\ tasks' = [tasks EXCEPT ![c] = @ \cup {t}]
      /\ UNCHANGED <<nodeVars, pc, call, todo, results, out, historyVars>>
  BY <1>1 DEF LoadNext
<1>3. k \in Node /\ call[c] \in Call /\ call[c].set \in Global
  BY <1>2, SplitTypes, ClientAssumption DEF Control
<1>4. serial[c] \in Nat /\ serial[c] > 0
  BY <1>2, SplitTypes DEF Control
<1>5. t \in Goroutine /\ t.serial \in 1..serial[c]
  <2>1. Message(call[c], NodeSlice(call[c].set, k)) \in Msg
    BY <1>3, SliceType, MessageType
  <2> QED
    BY <1>2, <1>3, <1>4, <2>1, TaskType
<1> HIDE DEF t
<1>6. NodeTypeOK'
  BY <1>2, SplitTypes DEF NodeTypeOK, nodeVars
<1>7. Control'
  BY <1>2, <1>5, SplitTypes DEF Control, nodeVars, historyVars
<1>8. Serials'
  BY <1>2, <1>5, SplitTypes DEF Serials, Control
<1> QED
  BY <1>2, <1>6, <1>7, <1>8, SplitTypes, JoinTypes DEF historyVars

LEMMA LoadAckTypes ==
  ASSUME TInv, NEW c \in Client, LoadAck(c)
  PROVE  TInv'
<1>1. /\ UNCHANGED <<nodeVars, callVars, tasks, budget, since, seen>>
      /\ pc[c] = "loading"
      /\ pc' = pc \/ pc' = [pc EXCEPT ![c] = "returned"]
      /\ results' = [results EXCEPT ![c] = <<>>]
      /\ \E k : todo' = [todo EXCEPT ![c] = @ \ {k}]
      /\ value' = value \/ value' = [value EXCEPT ![call[c].name] = since[c]]
  BY DEF LoadAck, Return
<1>2. since[c] # {} /\ since[c] \in SUBSET Global
  BY <1>1, SplitTypes DEF Control
<1>3. value' \in [Name -> SUBSET Global] /\ \A x \in Name : value'[x] # {}
  BY <1>1, <1>2, SplitTypes DEF Control
<1>4. pc' \in [Client -> Labels] /\ \A d \in Client : pc'[d] \in {pc[d], "returned"}
  BY <1>1, SplitTypes DEF Labels
<1>5. todo' \in [Client -> SUBSET Node]
  BY <1>1, SplitTypes
<1>6. NodeTypeOK'
  BY <1>1, SplitTypes DEF NodeTypeOK, nodeVars
<1>7. Control'
  BY <1>1, <1>3, <1>4, SplitTypes DEF Control, nodeVars, callVars
<1>8. Serials'
  BY <1>1, SplitTypes DEF Serials, callVars
<1> QED
  BY <1>1, <1>3, <1>4, <1>5, <1>6, <1>7, <1>8, SplitTypes, JoinTypes DEF callVars

\* Collect and Taken change the client's own state only.
LEMMA EndTypes ==
  ASSUME TInv, NEW c \in Client, Collect(c) \/ Taken(c)
  PROVE  TInv'
<1>1. /\ UNCHANGED <<nodeVars, serial, tasks, budget, value>>
      /\ call' = call \/ call' = [call EXCEPT ![c] = NoCall]
      /\ todo' = todo \/ todo' = [todo EXCEPT ![c] = {}]
      /\ results' = results \/ results' = [results EXCEPT ![c] = <<>>]
      /\ since' = since \/ since' = [since EXCEPT ![c] = {}]
      /\ pc' = [pc EXCEPT ![c] = "returned"] \/ pc' = [pc EXCEPT ![c] = "idle"]
  BY DEF Collect, Taken, Return, callVars, historyVars
<1>2. pc' \in [Client -> Labels] /\ pc'[c] \in {"returned", "idle"}
      /\ \A d \in Client \ {c} : pc'[d] = pc[d] /\ call'[d] = call[d] /\ since'[d] = since[d]
  BY <1>1, SplitTypes, ZenonT(30) DEF Labels, Control
<1>3. /\ call' \in [Client -> Call \cup {NoCall}] /\ todo' \in [Client -> SUBSET Node]
      /\ results' \in [Client -> Seq(Result)] /\ since' \in [Client -> SUBSET Global]
  <2>1. call' \in [Client -> Call \cup {NoCall}] /\ todo' \in [Client -> SUBSET Node]
    BY <1>1, SplitTypes
  <2>2. results \in [Client -> Seq(Result)] /\ <<>> \in Seq(Result)
    BY SplitTypes DEF Control
  <2>3. results' \in [Client -> Seq(Result)]
    BY <1>1, <2>2
  <2>4. since' \in [Client -> SUBSET Global]
    BY <1>1, SplitTypes DEF Control
  <2> QED
    BY <2>1, <2>3, <2>4
<1>4. NodeTypeOK'
  BY <1>1, SplitTypes DEF NodeTypeOK, nodeVars
<1>5. Control'
  BY <1>1, <1>2, <1>3, SplitTypes DEF Control, nodeVars
<1>6. Serials'
  BY <1>1, SplitTypes DEF Serials
<1> QED
  BY <1>1, <1>2, <1>3, <1>4, <1>5, <1>6, SplitTypes, JoinTypes

\* A goroutine's step changes one inbox, one outbox, its task and the results.
\* What a Read returns is a part of what is on the connection.
LEMMA ArrivedType ==
  ASSUME NEW c \in Client, NEW t \in Goroutine, outbox[c][t.node] \in Seq(Bytes)
  PROVE  /\ Arrived(c, t) \in Seq(Bytes) /\ Len(Arrived(c, t)) \in Nat
         /\ Len(Arrived(c, t)) <= Len(outbox[c][t.node])
         /\ SubSeq(outbox[c][t.node], Len(Arrived(c, t)) + 1, Len(outbox[c][t.node]))
              \in Seq(Bytes)
<1> DEFINE o == outbox[c][t.node]
           m == Missing(t)
<1>1. m \in Nat
  BY MaxMsgType DEF Missing, Goroutine
<1>2. Arrived(c, t) = IF Len(o) < m THEN o ELSE SubSeq(o, 1, m)
  BY DEF Arrived
<1>3. Len(o) >= m => SubSeq(o, 1, m) \in Seq(Bytes) /\ Len(SubSeq(o, 1, m)) = m
  BY <1>1
<1> HIDE DEF m
<1>4. /\ Arrived(c, t) \in Seq(Bytes) /\ Len(Arrived(c, t)) \in Nat
      /\ Len(Arrived(c, t)) <= Len(o)
  BY <1>1, <1>2, <1>3
<1> QED
  BY <1>4

\* The end of a task delivers a natural, or ends all goroutines.
LEMMA FinishTypes ==
  ASSUME TInv, NEW c \in Client, NEW t \in tasks[c], NEW body \in Seq(Bytes),
         Finish(c, t, body), serial' = serial
  PROVE  tasks' \in [Client -> SUBSET Goroutine] /\ results' \in [Client -> Seq(Result)]
         /\ Serials'
<1>1. CASE Deliver(c, t, TRUE, 0)
  BY <1>1, DeliverTypes
<1>2. CASE tasks' = [tasks EXCEPT ![c] = {}] /\ results' = results
  BY <1>2, SplitTypes DEF Control, Serials
<1>3. ASSUME Len(body) >= 8,
             \E n \in IF SubSeq(body, 1, 8) = SubSeq(Reply(SubSeq(body, 1, 8)[1].count), 5, 12)
                      THEN {SubSeq(body, 1, 8)[1].count} ELSE Misread :
               Deliver(c, t, TRUE, n)
      PROVE  \E n \in Nat : Deliver(c, t, TRUE, n)
  <2>1. body[1] \in Bytes /\ SubSeq(body, 1, 8)[1] = body[1]
    BY <1>3
  <2>2. SubSeq(body, 1, 8)[1].count \in Nat
    BY <2>1 DEF Bytes
  <2> QED
    BY <1>3, <2>2, ClientAssumption
<1> QED
  BY <1>1, <1>2, <1>3, DeliverTypes DEF Finish

\* A goroutine's step changes one inbox, one outbox, its task and the results.
LEMMA RunTypes ==
  ASSUME TInv, NEW c \in Client, Run(c)
  PROVE  TInv'
<1>1. PICK t \in tasks[c] :
        Write(c, t) \/ ReadPart(c, t) \/ ReadHeader(c, t) \/ ReadBody(c, t) \/ ReadFails(c, t)
  BY DEF Run
<1>2. /\ t \in Goroutine /\ t.node \in Node /\ t.msg \in Msg
      /\ outbox[c][t.node] \in Seq(Bytes) /\ inbox[c][t.node] \in Seq(Msg)
  BY SplitTypes DEF Control, Goroutine, NodeTypeOK
<1>3. /\ UNCHANGED <<alive, sets, link, late, callVars, todo, historyVars>>
      /\ pc' = pc \/ pc' = [pc EXCEPT ![c] = "panicked"]
  BY <1>1 DEF Write, ReadPart, ReadHeader, ReadBody, ReadFails, Read, Finish
<1>4. inbox' \in [Client -> [Node -> Seq(Msg)]]
  <2>1. inbox' = inbox \/ inbox' = [inbox EXCEPT ![c][t.node] = Append(@, t.msg)]
    BY <1>1 DEF Write, ReadPart, ReadHeader, ReadBody, ReadFails, Read
  <2>2. Append(inbox[c][t.node], t.msg) \in Seq(Msg)
    BY <1>2
  <2>3. inbox \in [Client -> [Node -> Seq(Msg)]]
    BY SplitTypes DEF Control
  <2>4. [inbox EXCEPT ![c][t.node] = Append(inbox[c][t.node], t.msg)]
          \in [Client -> [Node -> Seq(Msg)]]
    BY <1>2, <2>2, <2>3, QueueType
  <2> QED
    BY <2>1, <2>3, <2>4
<1>5. outbox' \in [Client -> [Node -> Seq(Bytes)]]
  <2> DEFINE o == outbox[c][t.node]
             rest == SubSeq(o, Len(Arrived(c, t)) + 1, Len(o))
  <2>1. outbox' = outbox \/ outbox' = [outbox EXCEPT ![c][t.node] = rest]
    BY <1>1 DEF Write, ReadPart, ReadHeader, ReadBody, ReadFails, Read
  <2>2. rest \in Seq(Bytes)
    BY <1>2, ArrivedType
  <2>3. outbox \in [Client -> [Node -> Seq(Bytes)]]
    BY SplitTypes DEF NodeTypeOK
  <2>4. [outbox EXCEPT ![c][t.node] = rest] \in [Client -> [Node -> Seq(Bytes)]]
    <3> HIDE DEF rest
    <3> QED
      BY <1>2, <2>2, <2>3, QueueType
  <2> QED
    BY <2>1, <2>3, <2>4
<1>6. tasks' \in [Client -> SUBSET Goroutine] /\ results' \in [Client -> Seq(Result)]
      /\ Serials'
  <2> DEFINE a == Arrived(c, t)
  <2>1. serial' = serial
    BY <1>3 DEF callVars
  <2>2. CASE Write(c, t)
    <3>1. 4 \in 0..MaxMsg /\ <<>> \in Seq(Bytes) /\ Len(<<>>) <= 4
      BY MaxMsgType
    <3> QED
      BY <2>1, <2>2, <3>1, AdvanceTypes, DeliverTypes DEF Write
  <2>8. /\ a \in Seq(Bytes) /\ t.got \o a \in Seq(Bytes) /\ Len(t.got \o a) = Len(t.got) + Len(a)
        /\ t.len \in 0..MaxMsg /\ Len(t.got) \in Nat /\ Len(a) \in Nat
    BY <1>2, ArrivedType DEF Goroutine
  <2>3. CASE ReadPart(c, t)
    <3>1. Len(a) < t.len - Len(t.got) /\ t.at \in {"header", "body"}
          /\ Advance(c, t, t.at, t.len, t.got \o a)
      BY <2>3 DEF ReadPart, Read, Missing
    <3>2. Len(t.got \o a) <= t.len
      BY <2>8, <3>1
    <3> HIDE DEF a
    <3> QED
      BY <2>1, <2>8, <3>1, <3>2, AdvanceTypes
  <2>4. CASE ReadHeader(c, t)
    <3>1. \/ Deliver(c, t, FALSE, 0) \/ Finish(c, t, <<>>)
          \/ \E length \in 1..MaxMsg : Advance(c, t, "body", length, <<>>)
      BY <2>4 DEF ReadHeader
    <3>2. /\ <<>> \in Seq(Bytes) /\ Len(<<>>) = 0
          /\ \A length \in 1..MaxMsg : length \in 0..MaxMsg /\ 0 <= length
      BY MaxMsgType
    <3>3. ASSUME NEW length \in 1..MaxMsg, Advance(c, t, "body", length, <<>>)
          PROVE  tasks' \in [Client -> SUBSET Goroutine] /\ results' \in [Client -> Seq(Result)]
                 /\ Serials'
      BY <2>1, <3>2, <3>3, AdvanceTypes
    <3> QED
      BY <2>1, <3>1, <3>2, <3>3, DeliverTypes, FinishTypes
  <2>5. CASE ReadBody(c, t)
    BY <2>1, <2>5, <2>8, FinishTypes DEF ReadBody
  <2>7. CASE ReadFails(c, t)
    BY <2>1, <2>7, DeliverTypes DEF ReadFails
  <2> QED
    BY <1>1, <2>2, <2>3, <2>4, <2>5, <2>7
<1>7. NodeTypeOK'
  BY <1>3, <1>4, <1>5, SplitTypes DEF NodeTypeOK
<1>8. Control'
  BY <1>3, <1>4, <1>6, SplitTypes DEF Control, callVars, historyVars
<1>9. pc' \in [Client -> Labels]
  BY <1>3, SplitTypes DEF Labels
<1> QED
  BY <1>3, <1>6, <1>7, <1>8, <1>9, SplitTypes, JoinTypes DEF callVars, historyVars

LEMMA ServeTypes ==
  ASSUME TInv, NEW c \in Client, NEW k \in Node, Serve(c, k)
  PROVE  TInv'
<1> DEFINE r == Head(inbox[c][k])
<1>1. /\ inbox[c][k] # <<>>
      /\ inbox' = [inbox EXCEPT ![c][k] = Tail(inbox[c][k])]
      /\ sets' = sets \/ sets' = [sets EXCEPT ![k][r.name] = r.words]
      /\ outbox' = [outbox EXCEPT ![c][k] = outbox[c][k] \o Reply(Count(k, r))]
      /\ UNCHANGED <<alive, link, late, pc, callVars, todo, tasks, results, out, historyVars>>
  BY DEF Serve, Handle
<1>2. /\ inbox \in [Client -> [Node -> Seq(Msg)]] /\ outbox \in [Client -> [Node -> Seq(Bytes)]]
      /\ sets \in [Node -> [Name -> Seq(Word)]]
  BY SplitTypes DEF Control, NodeTypeOK
<1>3. r \in Msg /\ Tail(inbox[c][k]) \in Seq(Msg)
  BY <1>1, <1>2
<1>4. inbox' \in [Client -> [Node -> Seq(Msg)]]
  <2> HIDE DEF r
  <2> QED
    BY <1>1, <1>2, <1>3, QueueType
<1>5. outbox' \in [Client -> [Node -> Seq(Bytes)]]
  <2> HIDE DEF r
  <2>1. Reply(Count(k, r)) \in Seq(Bytes)
    BY <1>3, ReplyType DEF TInv
  <2>2. outbox[c][k] \o Reply(Count(k, r)) \in Seq(Bytes)
    BY <1>2, <2>1
  <2> QED
    BY <1>1, <1>2, <2>2, QueueType
<1>6. sets' \in [Node -> [Name -> Seq(Word)]]
  <2> HIDE DEF r
  <2>1. r.name \in Name /\ r.words \in Seq(Word)
    BY <1>3 DEF Msg
  <2>2. [sets EXCEPT ![k][r.name] = r.words] \in [Node -> [Name -> Seq(Word)]]
    BY <1>2, <2>1
  <2> QED
    BY <1>1, <1>2, <2>2
<1>7. NodeTypeOK'
  BY <1>1, <1>4, <1>5, <1>6, SplitTypes DEF NodeTypeOK
<1>8. Control'
  BY <1>1, <1>4, SplitTypes DEF Control, callVars, historyVars
<1>9. Serials'
  BY <1>1, SplitTypes DEF Serials, callVars
<1> QED
  BY <1>1, <1>7, <1>8, <1>9, SplitTypes, JoinTypes DEF callVars, historyVars

\* What a closed connection brings is served like what an open one brings.
LEMMA ServeLateTypes ==
  ASSUME TInv, NEW k \in Node, ServeLate(k)
  PROVE  TInv'
<1>1. PICK old \in late[k] : HandleLate(k, old) \/ HangUp(k, old)
  BY DEF ServeLate
<1> DEFINE r == Head(old.queue)
<1>2. /\ UNCHANGED <<alive, link, inbox, outbox, pc, callVars, todo, tasks, results, out, historyVars>>
      /\ \/ /\ old.queue # <<>>
            /\ late' = [late EXCEPT ![k] = (@ \ {old}) \cup {[old EXCEPT !.queue = Tail(@)]}]
         \/ late' = [late EXCEPT ![k] = @ \ {old}]
      /\ sets' = sets \/ (old.queue # <<>> /\ sets' = [sets EXCEPT ![k][r.name] = r.words])
  BY <1>1 DEF ServeLate, HandleLate, HangUp
<1>3. late \in [Node -> SUBSET Old] /\ old \in Old /\ old.queue \in Seq(Msg)
  BY SplitTypes DEF Control, Old
<1>4. old.queue # <<>> => r \in Msg /\ [old EXCEPT !.queue = Tail(@)] \in Old
  <2>1. old.queue # <<>> => r \in Msg /\ Tail(old.queue) \in Seq(Msg)
    BY <1>3
  <2> QED
    BY <1>3, <2>1 DEF Old
<1>5. late' \in [Node -> SUBSET Old]
  <2>1. PICK S : late' = [late EXCEPT ![k] = S] /\ S \in SUBSET Old
    <3>1. CASE /\ old.queue # <<>>
               /\ late' = [late EXCEPT ![k] = (@ \ {old}) \cup {[old EXCEPT !.queue = Tail(@)]}]
      <4> DEFINE new == [old EXCEPT !.queue = Tail(@)]
      <4>1. new \in Old /\ late[k] \in SUBSET Old
        BY <1>3, <1>4, <3>1
      <4>2. late' = [late EXCEPT ![k] = (late[k] \ {old}) \cup {new}]
        BY <3>1
      <4> HIDE DEF new
      <4> QED
        BY <4>1, <4>2
    <3>2. CASE late' = [late EXCEPT ![k] = @ \ {old}]
      BY <1>3, <3>2
    <3> QED
      BY <1>2, <3>1, <3>2
  <2> QED
    BY <1>3, <2>1
<1>6. sets' \in [Node -> [Name -> Seq(Word)]]
  <2>1. sets \in [Node -> [Name -> Seq(Word)]]
    BY SplitTypes DEF NodeTypeOK
  <2>2. old.queue # <<>> => r.name \in Name /\ r.words \in Seq(Word)
    BY <1>4 DEF Msg
  <2> HIDE DEF r
  <2>3. old.queue # <<>> =>
          [sets EXCEPT ![k][r.name] = r.words] \in [Node -> [Name -> Seq(Word)]]
    BY <2>1, <2>2
  <2> QED
    BY <1>2, <2>1, <2>3
<1>7. NodeTypeOK'
  BY <1>2, <1>5, <1>6, SplitTypes DEF NodeTypeOK, Control
<1>8. Control'
  BY <1>2, <1>5, SplitTypes DEF Control, callVars, historyVars
<1>9. Serials'
  BY <1>2, SplitTypes DEF Serials, callVars
<1> QED
  BY <1>2, <1>7, <1>8, <1>9, SplitTypes, JoinTypes DEF callVars, historyVars

LEMMA DeathTypes ==
  ASSUME TInv, NEW k \in Node, NodeDies(k)
  PROVE  TInv'
<1> USE DEF NodeDies, Crash
<1>1. /\ UNCHANGED <<pc, callVars, todo, tasks, results, out, budget, seen, outbox>>
      /\ value' = [x \in Name |-> value[x] \cup {Empty}]
      /\ since' = [c \in Client |-> IF pc[c] = "loading" THEN since[c] \cup {Empty} ELSE {}]
      /\ inbox' = [c \in Client |-> [inbox[c] EXCEPT ![k] = <<>>]]
  OBVIOUS
<1>2. inbox' \in [Client -> [Node -> Seq(Msg)]] /\ late' \in [Node -> SUBSET Old]
  BY <1>1, SplitTypes DEF Control
<1>3. value' \in [Name -> SUBSET Global] /\ \A x \in Name : value'[x] # {}
  BY <1>1, EmptyType, SplitTypes DEF Control
<1>4. since' \in [Client -> SUBSET Global] /\ \A c \in Client : pc[c] = "loading" => since'[c] # {}
  BY <1>1, EmptyType, SplitTypes DEF Control
<1>5. NodeTypeOK'
  <2>1. alive' \in [Node -> BOOLEAN] /\ sets' \in [Node -> [Name -> Seq(Word)]]
    BY SplitTypes DEF NodeTypeOK
  <2>2. link' \in [Client -> [Node -> {"closed", "open", "broken"}]]
    BY SplitTypes DEF NodeTypeOK
  <2> QED
    BY <1>1, <1>2, <2>1, <2>2, SplitTypes DEF NodeTypeOK
<1>6. Control'
  BY <1>1, <1>2, <1>3, <1>4, SplitTypes DEF Control, callVars
<1>7. Serials'
  BY <1>1, SplitTypes DEF Serials, callVars
<1> QED
  BY <1>1, <1>3, <1>5, <1>6, <1>7, SplitTypes, JoinTypes DEF callVars

LEMMA NetworkTypes ==
  ASSUME TInv, Network
  PROVE  TInv'
<1>1. UNCHANGED <<sets, link, inbox, late, pc, callVars, todo, tasks, results, out, historyVars>>
  BY DEF Network, Lose, Restart
<1>2. outbox' \in [Client -> [Node -> Seq(Bytes)]] /\ alive' \in [Node -> BOOLEAN]
  <2>1. outbox \in [Client -> [Node -> Seq(Bytes)]] /\ alive \in [Node -> BOOLEAN]
    BY SplitTypes DEF NodeTypeOK
  <2>2. CASE \E c \in Client, k \in Node : Lose(c, k)
    <3>1. PICK c \in Client, k \in Node : Lose(c, k)
      BY <2>2
    <3> DEFINE o == outbox[c][k]
    <3> DEFINE left == IF Len(o) > Piece THEN Len(o) - Piece ELSE 0
    <3>2. outbox' = [outbox EXCEPT ![c][k] = SubSeq(o, 1, left)] /\ alive' = alive
      BY <3>1 DEF Lose
    <3>3. SubSeq(o, 1, left) \in Seq(Bytes)
      BY <2>1, NodeAssumption
    <3> HIDE DEF o, left
    <3> QED
      BY <2>1, <3>2, <3>3, QueueType
  <2>3. CASE \E k \in Node : Restart(k)
    BY <2>1, <2>3 DEF Restart
  <2> QED
    BY <2>2, <2>3 DEF Network
<1>3. NodeTypeOK'
  BY <1>1, <1>2, SplitTypes DEF NodeTypeOK
<1>4. Control'
  BY <1>1, SplitTypes DEF Control, callVars, historyVars
<1>5. Serials'
  BY <1>1, SplitTypes DEF Serials, callVars
<1> QED
  BY <1>1, <1>3, <1>4, <1>5, SplitTypes, JoinTypes DEF callVars, historyVars

LEMMA StepTypes == TInv /\ [Next]_vars => TInv'
<1> SUFFICES ASSUME TInv, [Next]_vars PROVE TInv'
  OBVIOUS
<1>1. ASSUME NEW c \in Client, NEW r \in Call, BeginLoad(c, r) \/ Gather(c, r)
      PROVE  TInv'
  BY <1>1, BeginLoadTypes, GatherTypes
<1>2. ASSUME NEW c \in Client, Step(c) PROVE TInv'
  BY <1>2, LoadNextTypes, LoadAckTypes, EndTypes, RunTypes DEF Step
<1>3. CASE UNCHANGED vars
  BY <1>3, SplitTypes, JoinTypes
     DEF NodeTypeOK, Control, Serials, vars, nodeVars, callVars, historyVars
<1> QED
  BY <1>1, <1>2, <1>3, DialTypes, ServeTypes, ServeLateTypes, DeathTypes, NetworkTypes DEF Next

\* Every variable has its type, whatever nodes die and however the clients' calls
\* interleave (sharded.go, cluster.go).
THEOREM TypeCorrect == Spec => []TypeOK
<1>1. TInv => TypeOK
  BY DEF TInv
<1> QED
  BY InitTypes, StepTypes, <1>1, PTL DEF Spec

-----------------------------------------------------------------------------
(* Counts *)

\* A node's words are its slice of a version; Empty is the version of a node
\* that was started again and stores nothing.
Sliced(s, v, k) == s = NodeSlice(v, k) \/ (s = <<>> /\ v = Empty)
OneOf(s, versions, k) == \E v \in versions : Sliced(s, v, k)

\* The bits of node k's words that two global sets share.
Shared(f, g, k) ==
  {p \in (0..Words - 1) \X Bit : Home[p[1]] = k /\ p[2] \in f[p[1]] /\ p[2] \in g[p[1]]}

\* The sets a query is intersected with: one that it brings, or versions of another.
Against(r, versions) == IF r.op = "stored" THEN versions[r.with] ELSE {r.set}

LEMMA Finitely ==
  ASSUME NEW S \in SUBSET ((0..Words - 1) \X Bit)
  PROVE  IsFiniteSet(S) /\ Cardinality(S) \in Nat
<1>1. IsFiniteSet(0..Words - 1)
  BY NodeAssumption, FS_Interval
<1>2. IsFiniteSet((0..Words - 1) \X Bit)
  BY <1>1, NodeAssumption, FS_Product
<1>3. IsFiniteSet(S)
  BY <1>2, FS_Subset
<1> QED
  BY <1>3, FS_CardinalityType

\* What a node answers from its slices of two versions is the number of bits they
\* share in its words (cluster.go:122-150).
LEMMA CountOfVersions ==
  ASSUME NEW k \in Node, NEW f \in Global, NEW g \in Global, NEW s, NEW t,
         Sliced(s, f, k), Sliced(t, g, k)
  PROVE  AndCount(s, t) = Cardinality(Shared(f, g, k))
<1> DEFINE common == {q \in DOMAIN s : q \in DOMAIN t}
           S == {p \in common \X Bit : p[2] \in s[p[1]] /\ p[2] \in t[p[1]]}
           T == Shared(f, g, k)
<1>1. AndCount(s, t) = Cardinality(S)
  BY DEF AndCount
<1>4. PICK d \in Nat : \E ix :
           /\ Numbers(ix, d, k, Words)
           /\ \A v \in Global : NodeSlice(v, k) \in Seq(Word) /\ Holds(NodeSlice(v, k), v, ix, d)
  BY Layout
<1>5. PICK ix :
           /\ Numbers(ix, d, k, Words)
           /\ \A v \in Global : NodeSlice(v, k) \in Seq(Word) /\ Holds(NodeSlice(v, k), v, ix, d)
  BY <1>4
<1>6. /\ ix \in [1..d -> 0..Words - 1]
      /\ \A p, q \in 1..d : ix[p] = ix[q] => p = q
      /\ \A q \in 0..Words - 1 : Home[q] = k <=> \E p \in 1..d : ix[p] = q
  BY <1>5, NodeAssumption DEF Numbers
<1>7. /\ NodeSlice(f, k) \in Seq(Word) /\ NodeSlice(g, k) \in Seq(Word)
      /\ Len(NodeSlice(f, k)) = d /\ Len(NodeSlice(g, k)) = d
      /\ \A p \in 1..d : NodeSlice(f, k)[p] = f[ix[p]] /\ NodeSlice(g, k)[p] = g[ix[p]]
  BY <1>5 DEF Holds
<1>2. CASE s = <<>> \/ t = <<>>
  <2>1. common = {}
    BY <1>2
  <2>2. S = {}
    BY <2>1
  <2>3. f = Empty \/ g = Empty \/ NodeSlice(f, k) = <<>> \/ NodeSlice(g, k) = <<>>
    BY <1>2 DEF Sliced
  <2>4. ASSUME f = Empty \/ g = Empty PROVE T = {}
    BY <2>4 DEF Shared, Empty
  <2>5. ASSUME NodeSlice(f, k) = <<>> \/ NodeSlice(g, k) = <<>> PROVE T = {}
    <3>1. d = 0
      BY <1>7, <2>5
    <3>2. \A q \in 0..Words - 1 : Home[q] # k
      BY <1>6, <3>1
    <3> QED
      BY <3>2 DEF Shared
  <2> QED
    BY <1>1, <2>2, <2>3, <2>4, <2>5
<1>3. CASE s = NodeSlice(f, k) /\ t = NodeSlice(g, k)
  <2> DEFINE b == [p \in S |-> <<ix[p[1]], p[2]>>]
  <2>2. DOMAIN s = 1..d /\ DOMAIN t = 1..d
        /\ \A q \in 1..d : s[q] = f[ix[q]] /\ t[q] = g[ix[q]]
    BY <1>3, <1>7
  <2>4. common = 1..d
    BY <2>2
  <2>5. ASSUME NEW p \in S PROVE <<ix[p[1]], p[2]>> \in T
    <3>1. p[1] \in 1..d /\ p[2] \in Bit /\ p[2] \in s[p[1]] /\ p[2] \in t[p[1]]
      BY <2>4
    <3> DEFINE q == ix[p[1]]
    <3>2. q \in 0..Words - 1
      BY <1>6, <3>1
    <3>3. Home[q] = k /\ p[2] \in f[q] /\ p[2] \in g[q]
      BY <1>6, <2>2, <3>1, <3>2
    <3> HIDE DEF q
    <3> QED
      BY <3>1, <3>2, <3>3 DEF Shared, q
  <2>6. ASSUME NEW p \in T PROVE \E e \in S : <<ix[e[1]], e[2]>> = p
    <3>1. /\ p \in (0..Words - 1) \X Bit /\ Home[p[1]] = k
          /\ p[2] \in f[p[1]] /\ p[2] \in g[p[1]]
      BY DEF Shared
    <3>2. PICK q \in 1..d : ix[q] = p[1]
      BY <1>6, <3>1
    <3>3. p[2] \in s[q] /\ p[2] \in t[q] /\ p[2] \in Bit /\ p = <<p[1], p[2]>>
      BY <2>2, <3>1, <3>2
    <3>4. <<q, p[2]>> \in S
      BY <2>4, <3>2, <3>3
    <3> QED
      BY <3>2, <3>3, <3>4
  <2>7. \A e, p \in S : <<ix[e[1]], e[2]>> = <<ix[p[1]], p[2]>> => e = p
    <3> TAKE e, p \in S
    <3>1. e = <<e[1], e[2]>> /\ p = <<p[1], p[2]>> /\ e[1] \in 1..d /\ p[1] \in 1..d
      BY <2>4
    <3>2. ix[e[1]] = ix[p[1]] => e[1] = p[1]
      BY <1>6, <3>1
    <3> HIDE DEF S
    <3> QED
      BY <3>1, <3>2
  <2> HIDE DEF S, T
  <2>8. b \in Bijection(S, T)
    BY <2>5, <2>6, <2>7 DEF Bijection, Injection, Surjection, IsInjective
  <2>9. IsFiniteSet(T)
    BY Finitely DEF T, Shared
  <2>10. ExistsBijection(S, T)
    BY <2>8 DEF ExistsBijection
  <2>11. IsFiniteSet(S)
    <3>1. IsFiniteSet((1..d) \X Bit)
      <4>1. IsFiniteSet(1..d)
        BY <1>4, FS_Interval
      <4> QED
        BY <4>1, FS_Product, NodeAssumption
    <3>2. S \in SUBSET ((1..d) \X Bit)
      BY <2>4 DEF S
    <3> QED
      BY <3>1, <3>2, FS_Subset
  <2> QED
    BY <1>1, <2>10, <2>11, FS_Bijection DEF S, T
<1> QED
  BY <1>2, <1>3 DEF Sliced

\* The running sum of a gather as an equation.
LEMMA TotalEquation ==
  ASSUME NEW rs \in Seq(Result)
  PROVE  \E sum \in [0..Len(rs) -> Nat] :
           /\ Total(rs) = sum[Len(rs)]
           /\ sum[0] = 0
           /\ \A q \in 1..Len(rs) : sum[q] = sum[q - 1] + rs[q].count
<1> DEFINE m == Len(rs)
           D == 0..m
           body(g) == [q \in D |-> IF q = 0 THEN 0 ELSE g[q - 1] + rs[q].count]
           step == [g \in [D -> Nat] |-> body(g)]
           rank == [q \in D |-> q]
           sum == CHOOSE sum : sum = body(sum)
<1>1. m \in Nat /\ \A q \in 1..m : rs[q].count \in Nat
  <2>1. m \in Nat
    BY LenProperties
  <2>2. \A q \in 1..m : rs[q] \in Result
    BY ElementOfSeq
  <2> QED
    BY <2>1, <2>2 DEF Result
<1>2. \A q \in D : q # 0 => q - 1 \in D /\ q \in 1..m
  BY <1>1
<1>3. \A g \in [D -> Nat], q \in D : body(g)[q] \in Nat
  <2> SUFFICES ASSUME NEW g \in [D -> Nat], NEW q \in D PROVE body(g)[q] \in Nat
    <3> HIDE DEF body, D
    <3> QED
      OBVIOUS
  <2>1. CASE q = 0
    BY <2>1
  <2>2. CASE q # 0
    <3>1. q - 1 \in D /\ rs[q].count \in Nat
      BY <1>1, <1>2, <2>2
    <3>2. g[q - 1] \in Nat
      <4> HIDE DEF D
      <4> QED
        BY <3>1
    <3>3. g[q - 1] + rs[q].count \in Nat
      <4> DEFINE u == g[q - 1]
                 v == rs[q].count
      <4>1. u \in Nat /\ v \in Nat
        BY <3>1, <3>2
      <4> HIDE DEF u, v
      <4>2. u + v \in Nat
        BY <4>1
      <4> QED
        BY <4>2 DEF u, v
    <3>4. body(g)[q] = g[q - 1] + rs[q].count
      <4> HIDE DEF D
      <4> QED
        BY <2>2
    <3> HIDE DEF body
    <3> QED
      BY <3>3, <3>4
  <2> QED
    BY <2>1, <2>2
<1>4. step \in [[D -> Nat] -> [D -> Nat]]
  <2>1. \A g \in [D -> Nat] : body(g) \in [D -> Nat]
    <3> HIDE DEF D
    <3> QED
      BY <1>3
  <2> HIDE DEF body, D
  <2> QED
    BY <2>1
<1>5. rank \in [D -> Nat]
  BY <1>1
<1>6. \A g, h \in [D -> Nat], q \in D :
        (\A y \in D : rank[y] < rank[q] => g[y] = h[y]) => step[g][q] = step[h][q]
  <2> SUFFICES ASSUME NEW g \in [D -> Nat], NEW h \in [D -> Nat], NEW q \in D,
                      \A y \in D : rank[y] < rank[q] => g[y] = h[y]
               PROVE  step[g][q] = step[h][q]
    <3> HIDE DEF step, rank, D
    <3> QED
      OBVIOUS
  <2>1. q # 0 => g[q - 1] = h[q - 1]
    BY <1>1, <1>2
  <2> QED
    BY <2>1
<1>7. \E f : f = body(f)
  <2>1. \E f \in [D -> Nat] : f = step[f]
    <3> HIDE DEF D, step, rank
    <3>1. Recursive(D, Nat, step, rank)
      BY <1>4, <1>5, <1>6 DEF Recursive
    <3>2. HasSolution(D, Nat, step)
      BY <3>1, Fixpoint
    <3> QED
      BY <3>2 DEF HasSolution
  <2> QED
    BY <2>1
<1>8. sum = body(sum)
  <2> HIDE DEF body
  <2> QED
    BY <1>7
<1>9. Total(rs) = sum[m]
  BY Zenon DEF Total
<1> HIDE DEF sum
<1>10. ASSUME NEW q \in D
       PROVE  sum[q] = IF q = 0 THEN 0 ELSE sum[q - 1] + rs[q].count
  <2>1. sum[q] = body(sum)[q]
    <3> HIDE DEF body, D
    <3> QED
      BY <1>8
  <2> HIDE DEF D
  <2> QED
    BY <2>1
<1>11. sum[0] = 0 /\ \A q \in 1..m : sum[q] = sum[q - 1] + rs[q].count
  <2>1. 0 \in D /\ \A q \in 1..m : q \in D /\ q # 0
    BY <1>1
  <2> HIDE DEF D, m
  <2> QED
    BY <1>10, <2>1
<1>12. sum \in [D -> Nat]
  <2> DEFINE S == {q \in Nat : q <= m => sum[q] \in Nat}
  <2>1. 0 \in S
    BY <1>11
  <2>2. ASSUME NEW q \in Nat, q \in S PROVE q + 1 \in S
    <3> SUFFICES ASSUME q + 1 <= m PROVE sum[q + 1] \in Nat
      OBVIOUS
    <3>1. q + 1 \in 1..m /\ (q + 1) - 1 = q /\ sum[q] \in Nat /\ rs[q + 1].count \in Nat
      BY <1>1, <2>2
    <3> QED
      BY <1>11, <3>1
  <2>3. \A q \in Nat : q \in S
    <3> HIDE DEF S
    <3> QED
      BY <2>1, <2>2, Induction
  <2>4. \A q \in D : sum[q] \in Nat
    BY <1>1, <2>3
  <2>5. sum = [q \in D |-> sum[q]]
    BY <1>8
  <2> HIDE DEF D
  <2> QED
    BY <2>4, <2>5
<1> QED
  BY <1>9, <1>11, <1>12

\* All that two assignments of versions to nodes share: what Counts counts.
SharedBy(f, g) ==
  {p \in (0..Words - 1) \X Bit : /\ p[2] \in f[Home[p[1]]][p[1]]
                                 /\ p[2] \in g[Home[p[1]]][p[1]]}

\* The sum over one result per node is the count over the whole universe.
LEMMA TotalCounts ==
  ASSUME NEW rs \in Seq(Result), NEW f, NEW g,
         \A q \in 1..Len(rs) :
           rs[q].count = Cardinality(Shared(f[rs[q].node], g[rs[q].node], rs[q].node)),
         \A p, q \in 1..Len(rs) : rs[p].node = rs[q].node => p = q,
         \A k \in Node : \E q \in 1..Len(rs) : rs[q].node = k
  PROVE  Total(rs) = Cardinality(SharedBy(f, g))
<1> DEFINE m == Len(rs)
           W == (0..Words - 1) \X Bit
           Some(i) == {p \in SharedBy(f, g) : \E q \in 1..i : rs[q].node = Home[p[1]]}
           One(q) == Shared(f[rs[q].node], g[rs[q].node], rs[q].node)
<1>1. PICK sum \in [0..m -> Nat] :
           /\ Total(rs) = sum[m]
           /\ sum[0] = 0
           /\ \A q \in 1..m : sum[q] = sum[q - 1] + rs[q].count
  BY TotalEquation
<1>2. m \in Nat /\ \A q \in 1..m : rs[q].count = Cardinality(One(q))
  BY LenProperties
<1>3. \A i \in Nat : IsFiniteSet(Some(i)) /\ Cardinality(Some(i)) \in Nat
  <2> TAKE i \in Nat
  <2>1. Some(i) \in SUBSET W
    BY DEF SharedBy
  <2> QED
    BY <2>1, Finitely
<1>4. \A q \in 1..m : IsFiniteSet(One(q)) /\ Cardinality(One(q)) \in Nat
  <2> TAKE q \in 1..m
  <2>1. One(q) \in SUBSET W
    BY DEF Shared
  <2> QED
    BY <2>1, Finitely
<1>5. ASSUME NEW i \in Nat, i + 1 <= m
      PROVE  Cardinality(Some(i + 1)) = Cardinality(Some(i)) + rs[i + 1].count
  <2>1. i + 1 \in 1..m /\ \A q : q \in 1..i + 1 <=> q \in 1..i \/ q = i + 1
    BY <1>2, <1>5
  <2>2. ASSUME NEW p PROVE p \in One(i + 1) <=> p \in SharedBy(f, g) /\ rs[i + 1].node = Home[p[1]]
    BY DEF Shared, SharedBy
  <2>3. Some(i + 1) = Some(i) \cup One(i + 1)
    <3>1. ASSUME NEW p PROVE p \in Some(i + 1) <=> p \in Some(i) \/ p \in One(i + 1)
      <4> HIDE DEF One
      <4> QED
        BY <2>1, <2>2
    <3> HIDE DEF Some, One
    <3> QED
      BY <3>1
  <2>4. Some(i) \cap One(i + 1) = {}
    <3> SUFFICES ASSUME NEW p \in Some(i), p \in One(i + 1) PROVE FALSE
      OBVIOUS
    <3>1. PICK q \in 1..i : rs[q].node = Home[p[1]]
      OBVIOUS
    <3>2. rs[i + 1].node = Home[p[1]]
      BY <2>2
    <3>3. q \in 1..m /\ q # i + 1
      BY <1>2, <1>5
    <3> QED
      BY <2>1, <3>1, <3>2, <3>3
  <2> DEFINE A == Some(i)
             B == One(i + 1)
  <2>5. IsFiniteSet(A) /\ IsFiniteSet(B) /\ Cardinality(A) \in Nat /\ Cardinality(B) \in Nat
    <3> HIDE DEF Some, One
    <3> QED
      BY <1>3, <1>4, <2>1
  <2>6. A \cap B = {} /\ Some(i + 1) = A \cup B
    <3> HIDE DEF Some, One
    <3> QED
      BY <2>3, <2>4
  <2>7. rs[i + 1].count = Cardinality(B)
    <3> HIDE DEF One
    <3> QED
      BY <1>2, <2>1
  <2> HIDE DEF A, B
  <2>8. Cardinality(A \cup B) = Cardinality(A) + Cardinality(B) - Cardinality(A \cap B)
    BY <2>5, FS_Union
  <2>9. Cardinality({}) = 0
    BY FS_EmptySet
  <2>10. Cardinality(Some(i + 1)) = Cardinality(A) + rs[i + 1].count
    <3> DEFINE a == Cardinality(A)
               b == Cardinality(B)
               z == Cardinality(A \cap B)
    <3>1. a \in Nat /\ b \in Nat /\ z = 0
      BY <2>5, <2>6, <2>9
    <3>2. Cardinality(A \cup B) = a + b - z
      BY <2>8
    <3> HIDE DEF a, b, z
    <3>3. Cardinality(A \cup B) = a + b
      BY <3>1, <3>2
    <3> HIDE DEF Some
    <3> QED
      BY <2>6, <2>7, <3>3 DEF a, b
  <2>11. Some(i) = A
    BY DEF A
  <2> HIDE DEF Some
  <2> QED
    BY <2>10, <2>11
<1> DEFINE S == {i \in Nat : i <= m => sum[i] = Cardinality(Some(i))}
<1>6. 0 \in S
  <2>1. Some(0) = {}
    OBVIOUS
  <2> QED
    BY <1>1, <2>1, FS_EmptySet
<1>7. ASSUME NEW i \in Nat, i \in S PROVE i + 1 \in S
  <2> SUFFICES ASSUME i + 1 <= m PROVE sum[i + 1] = Cardinality(Some(i + 1))
    BY <1>2
  <2> HIDE DEF Some
  <2>1. sum[i] = Cardinality(Some(i)) /\ i + 1 \in 1..m /\ (i + 1) - 1 = i
    BY <1>2, <1>7
  <2> QED
    BY <1>1, <1>5, <2>1
<1>8. sum[m] = Cardinality(Some(m))
  <2>1. \A i \in Nat : i \in S
    <3> HIDE DEF S
    <3> QED
      BY <1>6, <1>7, Induction
  <2> HIDE DEF Some
  <2> QED
    BY <1>2, <2>1
<1>9. Some(m) = SharedBy(f, g)
  <2>1. ASSUME NEW p \in SharedBy(f, g) PROVE \E q \in 1..m : rs[q].node = Home[p[1]]
    <3>1. p[1] \in 0..Words - 1
      BY DEF SharedBy
    <3> QED
      BY <3>1, HomeFacts
  <2> QED
    BY <2>1
<1> QED
  BY <1>1, <1>8, <1>9

-----------------------------------------------------------------------------
(* The goroutines of the present call *)

\* Goroutines of a gather that failed go on after it; those of the call in progress,
\* or of the last one, carry its serial.
Current(c) == {t \in tasks[c] : t.serial = serial[c]}

\* A load has at most one goroutine, whose result it awaits; a gather has as many as
\* results are missing, each of another node.
Readers(c) ==
  /\ \A t, u \in Current(c) : t.node = u.node => t = u
  /\ pc[c] = "loading" =>
       /\ \A t, u \in Current(c) : t = u
       /\ results[c] # <<>> => Current(c) = {}
  /\ pc[c] = "gathering" =>
       IsFiniteSet(Current(c)) /\ Len(results[c]) + Cardinality(Current(c)) = Nodes

RInv == TInv /\ \A c \in Client : Readers(c)

\* What a step leaves alone of a client.
LEMMA Untouched ==
  ASSUME NEW c \in Client, Readers(c), tasks'[c] = tasks[c], serial'[c] = serial[c],
         pc'[c] = pc[c], results'[c] = results[c]
  PROVE  Readers(c)'
BY DEF Readers, Current

\* A step of client c changes nothing of another client's calls.
LEMMA Others ==
  ASSUME RInv, NEW c \in Client,
         tasks' = [tasks EXCEPT ![c] = tasks'[c]], serial' = [serial EXCEPT ![c] = serial'[c]],
         pc' = [pc EXCEPT ![c] = pc'[c]], results' = [results EXCEPT ![c] = results'[c]],
         Readers(c)'
  PROVE  \A d \in Client : Readers(d)'
<1> TAKE d \in Client
<1>1. CASE d = c
  BY <1>1
<1>2. CASE d # c
  <2>1. tasks'[d] = tasks[d] /\ serial'[d] = serial[d] /\ pc'[d] = pc[d] /\ results'[d] = results[d]
    BY <1>2, SplitTypes DEF RInv, Control
  <2> QED
    BY <2>1, Untouched DEF RInv
<1> QED
  BY <1>1, <1>2

\* A gather starts one goroutine per node.
LEMMA OnePerNode ==
  ASSUME NEW T, NEW f \in [Node -> T], \A p, q \in Node : f[p] = f[q] => p = q,
         T = {f[p] : p \in Node}
  PROVE  IsFiniteSet(T) /\ Cardinality(T) = Nodes
<1>1. f \in Bijection(Node, T)
  BY DEF Bijection, Injection, Surjection, IsInjective
<1>2. ExistsBijection(Node, T)
  BY <1>1 DEF ExistsBijection
<1>3. IsFiniteSet(Node) /\ Cardinality(Node) = Nodes
  <2>1. Nodes - 1 \in Int /\ 0 \in Int /\ Nodes \in Nat \ {0}
    BY NodeAssumption
  <2>2. IsFiniteSet(0..Nodes - 1)
        /\ Cardinality(0..Nodes - 1) = IF 0 > Nodes - 1 THEN 0 ELSE Nodes - 1 - 0 + 1
    BY <2>1, FS_Interval
  <2> QED
    BY <2>1, <2>2 DEF Node
<1> QED
  BY <1>2, <1>3, FS_Bijection

\* Of the goroutines of the present call, a step advances one, or of another call.
LEMMA CurrentAdvances ==
  ASSUME NEW c, NEW t \in tasks[c], NEW u, u.serial = t.serial,
         tasks'[c] = (tasks[c] \ {t}) \cup {u}, serial'[c] = serial[c]
  PROVE  /\ t \in Current(c) => Current(c)' = (Current(c) \ {t}) \cup {u}
         /\ t \notin Current(c) => Current(c)' = Current(c)
BY DEF Current

\* What a goroutine that moves on keeps.
LEMMA Moved ==
  ASSUME TInv, NEW c \in Client, NEW t \in tasks[c],
         NEW at, NEW len, NEW got, Advance(c, t, at, len, got)
  PROVE  \E u : /\ u.node = t.node /\ u.serial = t.serial /\ u.msg = t.msg
               /\ u.at = at /\ u.len = len /\ u.got = got
               /\ tasks' = [tasks EXCEPT ![c] = (tasks[c] \ {t}) \cup {u}]
               /\ tasks'[c] = (tasks[c] \ {t}) \cup {u} /\ results' = results
<1>1. tasks \in [Client -> SUBSET Goroutine] /\ t \in Goroutine
  BY SplitTypes DEF Control
<1>2. PICK u : u = [t EXCEPT !.at = at, !.len = len, !.got = got]
  OBVIOUS
<1>3. tasks' = [tasks EXCEPT ![c] = (tasks[c] \ {t}) \cup {u}] /\ results' = results
  BY <1>2 DEF Advance
<1>4. /\ u.node = t.node /\ u.serial = t.serial /\ u.msg = t.msg
      /\ u.at = at /\ u.len = len /\ u.got = got
  BY <1>1, <1>2 DEF Goroutine
<1>5. tasks'[c] = (tasks[c] \ {t}) \cup {u}
  BY <1>1, <1>3
<1> QED
  BY <1>3, <1>4, <1>5

LEMMA AdvanceReaders ==
  ASSUME RInv, NEW c \in Client, NEW t \in tasks[c],
         NEW at, NEW len, NEW got, Advance(c, t, at, len, got), UNCHANGED <<serial, pc>>
  PROVE  \A d \in Client : Readers(d)'
<1>1. PICK u :
        /\ tasks' = [tasks EXCEPT ![c] = (tasks[c] \ {t}) \cup {u}]
        /\ tasks'[c] = (tasks[c] \ {t}) \cup {u}
        /\ u.node = t.node /\ u.serial = t.serial /\ results' = results
  BY Moved DEF RInv
<1>2. /\ t \in Current(c) => Current(c)' = (Current(c) \ {t}) \cup {u}
      /\ t \notin Current(c) => Current(c)' = Current(c)
  BY <1>1, CurrentAdvances
<1>3. Readers(c)
  BY DEF RInv
<1>4. ASSUME t \notin Current(c) PROVE Readers(c)'
  BY <1>1, <1>2, <1>3, <1>4 DEF Readers
<1>5. ASSUME t \in Current(c) PROVE Readers(c)'
  <2> DEFINE C == Current(c)
             S == C \ {t}
  <2>1. \A v \in S : v.node # t.node
    BY <1>3, <1>5 DEF Readers
  <2>2. Current(c)' = S \cup {u} /\ u \notin S
    BY <1>1, <1>2, <1>5, <2>1
  <2>3. IsFiniteSet(C) => IsFiniteSet(S \cup {u}) /\ Cardinality(S \cup {u}) = Cardinality(C)
    <3> SUFFICES ASSUME IsFiniteSet(C)
                 PROVE  IsFiniteSet(S \cup {u}) /\ Cardinality(S \cup {u}) = Cardinality(C)
      OBVIOUS
    <3>1. /\ IsFiniteSet(S) /\ Cardinality(S) = Cardinality(C) - 1 /\ Cardinality(C) \in Nat
      <4>1. t \in C
        BY <1>5
      <4> HIDE DEF C
      <4> QED
        BY <4>1, FS_RemoveElement, FS_CardinalityType
    <3> HIDE DEF C, S
    <3>2. IsFiniteSet(S \cup {u}) /\ Cardinality(S \cup {u}) = Cardinality(S) + 1
      BY <2>2, <3>1, FS_AddElement
    <3> QED
      BY <3>1, <3>2
  <2>4. \A v, z \in Current(c)' : v.node = z.node => v = z
    BY <1>1, <1>2, <1>3, <2>1, <2>2 DEF Readers
  <2>5. pc'[c] = "loading" => (\A v, z \in Current(c)' : v = z) /\ results'[c] = <<>>
    BY <1>1, <1>3, <1>5, <2>2 DEF Readers
  <2> QED
    BY <1>1, <1>3, <2>2, <2>3, <2>4, <2>5 DEF Readers
<1> QED
  BY <1>1, <1>4, <1>5, Others, SplitTypes DEF RInv, Control

\* A goroutine that ends delivers a result if its call is in progress.
LEMMA CurrentDelivers ==
  ASSUME TInv, NEW c \in Client, NEW t \in tasks[c], NEW ok, NEW k,
         Deliver(c, t, ok, k), serial' = serial
  PROVE  /\ tasks'[c] = tasks[c] \ {t} /\ Current(c)' = Current(c) \ {t}
         /\ t \in Current(c) /\ pc[c] \in {"loading", "gathering"} =>
              results'[c] = Append(results[c], [node |-> t.node, ok |-> ok, count |-> k])
         /\ t \notin Current(c) \/ pc[c] \notin {"loading", "gathering"} =>
              results'[c] = results[c]
<1>1. tasks'[c] = tasks[c] \ {t}
  BY SplitTypes DEF Deliver, Control
<1>2. /\ t.serial = serial[c] <=> t \in Current(c)
      /\ Current(c)' = Current(c) \ {t}
  BY <1>1 DEF Current
<1> QED
  BY <1>1, <1>2, SplitTypes DEF Deliver, Control

LEMMA DeliverReaders ==
  ASSUME RInv, NEW c \in Client, NEW t \in tasks[c], NEW ok, NEW k,
         Deliver(c, t, ok, k), UNCHANGED <<serial, pc>>
  PROVE  \A d \in Client : Readers(d)'
<1> DEFINE r == [node |-> t.node, ok |-> ok, count |-> k]
           C == Current(c)
<1>1. /\ tasks' = [tasks EXCEPT ![c] = tasks[c] \ {t}]
      /\ tasks \in [Client -> SUBSET Goroutine] /\ results \in [Client -> Seq(Result)]
      /\ Readers(c) /\ TInv /\ pc' = pc
      /\ results' = [results EXCEPT ![c] = results'[c]]
  BY SplitTypes DEF Deliver, RInv, Control
<1>2. /\ Current(c)' = Current(c) \ {t}
      /\ t \in Current(c) /\ pc[c] \in {"loading", "gathering"} => results'[c] = Append(results[c], r)
      /\ t \notin Current(c) \/ pc[c] \notin {"loading", "gathering"} => results'[c] = results[c]
  BY <1>1, CurrentDelivers
<1> HIDE DEF r
<1>3. ASSUME t \notin Current(c) PROVE Readers(c)'
  <2>1. Current(c)' = Current(c) /\ results'[c] = results[c]
    BY <1>2, <1>3
  <2> QED
    BY <1>1, <2>1 DEF Readers
<1>4. ASSUME t \in Current(c) PROVE Readers(c)'
  <2>1. pc[c] \in {"loading", "gathering"} => Len(results'[c]) = Len(results[c]) + 1
    BY <1>1, <1>2, <1>4
  <2>2. IsFiniteSet(C) => /\ IsFiniteSet(C \ {t}) /\ Cardinality(C \ {t}) = Cardinality(C) - 1
                          /\ Cardinality(C) \in Nat
    <3>1. t \in C
      BY <1>4
    <3> HIDE DEF C
    <3> QED
      BY <3>1, FS_RemoveElement, FS_CardinalityType
  <2>3. pc'[c] = "loading" => Current(c)' = {}
    BY <1>1, <1>2, <1>4 DEF Readers
  <2>4. pc'[c] = "gathering" =>
          IsFiniteSet(Current(c)') /\ Len(results'[c]) + Cardinality(Current(c)') = Nodes
    <3> SUFFICES ASSUME pc'[c] = "gathering"
                 PROVE  IsFiniteSet(Current(c)') /\ Len(results'[c]) + Cardinality(Current(c)') = Nodes
      OBVIOUS
    <3>1. Len(results[c]) \in Nat /\ IsFiniteSet(C) /\ Len(results[c]) + Cardinality(C) = Nodes
      BY <1>1 DEF Readers
    <3>2. Len(results'[c]) = Len(results[c]) + 1 /\ Current(c)' = C \ {t}
      BY <1>1, <1>2, <2>1
    <3> HIDE DEF C
    <3> QED
      BY <2>2, <3>1, <3>2
  <2> QED
    BY <1>1, <1>2, <2>3, <2>4 DEF Readers
<1> QED
  BY <1>1, <1>3, <1>4, Others, SplitTypes DEF RInv, Control

\* A goroutine moves on, ends, or ends its process.
LEMMA RunCases ==
  ASSUME NEW c \in Client, NEW t \in tasks[c],
         Write(c, t) \/ ReadPart(c, t) \/ ReadHeader(c, t) \/ ReadBody(c, t) \/ ReadFails(c, t)
  PROVE  /\ UNCHANGED <<alive, sets, link, late, callVars, todo, out, historyVars>>
         /\ inbox' = inbox \/ inbox' = [inbox EXCEPT ![c][t.node] = Append(@, t.msg)]
         /\ \/ pc' = pc /\ \E at, len, got : Advance(c, t, at, len, got)
            \/ pc' = pc /\ \E ok, k : Deliver(c, t, ok, k)
            \/ /\ pc' = [pc EXCEPT ![c] = "panicked"]
               /\ tasks' = [tasks EXCEPT ![c] = {}] /\ UNCHANGED <<inbox, results>>
<1>1. ASSUME NEW body, Finish(c, t, body)
      PROVE  \/ pc' = pc /\ \E ok, k : Deliver(c, t, ok, k)
             \/ /\ pc' = [pc EXCEPT ![c] = "panicked"]
                /\ tasks' = [tasks EXCEPT ![c] = {}] /\ UNCHANGED results
  BY <1>1 DEF Finish
<1>2. CASE Write(c, t)
  BY <1>2 DEF Write
<1>3. CASE ReadPart(c, t)
  BY <1>3 DEF ReadPart, Read
<1>4. CASE ReadHeader(c, t)
  BY <1>1, <1>4 DEF ReadHeader, Read
<1>5. CASE ReadBody(c, t)
  BY <1>1, <1>5 DEF ReadBody, Read
<1>6. CASE ReadFails(c, t)
  BY <1>6 DEF ReadFails, Read
<1> QED
  BY <1>2, <1>3, <1>4, <1>5, <1>6

LEMMA RunReaders ==
  ASSUME RInv, NEW c \in Client, Run(c)
  PROVE  \A d \in Client : Readers(d)'
<1>1. PICK t \in tasks[c] :
        /\ UNCHANGED <<alive, sets, link, late, callVars, todo, out, historyVars>>
        /\ \/ pc' = pc /\ \E at, len, got : Advance(c, t, at, len, got)
           \/ pc' = pc /\ \E ok, k : Deliver(c, t, ok, k)
           \/ /\ pc' = [pc EXCEPT ![c] = "panicked"]
              /\ tasks' = [tasks EXCEPT ![c] = {}] /\ UNCHANGED <<inbox, results>>
  BY RunCases DEF Run
<1>2. CASE UNCHANGED <<serial, pc>> /\ \E ok, k : Deliver(c, t, ok, k)
  BY <1>2, DeliverReaders
<1>3. CASE UNCHANGED <<serial, pc>> /\ \E at, len, got : Advance(c, t, at, len, got)
  BY <1>3, AdvanceReaders
<1>4. CASE /\ UNCHANGED <<results, serial>> /\ pc' = [pc EXCEPT ![c] = "panicked"]
           /\ tasks' = [tasks EXCEPT ![c] = {}]
  <2>1. pc'[c] = "panicked" /\ pc' = [pc EXCEPT ![c] = pc'[c]] /\ tasks'[c] = {}
    BY <1>4, SplitTypes DEF RInv, Control
  <2>2. Readers(c)'
    BY <2>1 DEF Readers, Current
  <2> QED
    BY <1>4, <2>1, <2>2, Others, SplitTypes DEF RInv, Control
<1> QED
  BY <1>1, <1>2, <1>3, <1>4 DEF callVars

\* A gather starts a goroutine per node, with a serial of its own.
LEMMA GatherStarts ==
  ASSUME RInv, NEW c \in Client, NEW r \in Call, Gather(c, r)
  PROVE  /\ Current(c)' = {Task(c, k, Message(r, IF r.op = "query" THEN NodeSlice(r.set, k) ELSE <<>>)) :
                              k \in Node}
         /\ tasks'[c] = tasks[c] \cup Current(c)'
         /\ tasks' = [tasks EXCEPT ![c] = tasks'[c]]
         /\ IsFiniteSet(Current(c)') /\ Cardinality(Current(c)') = Nodes
         /\ \A t \in Current(c)' : t.at = "write" /\ t.node \in Node
         /\ \A k \in Node : \E t \in Current(c)' : t.node = k
         /\ \A t, u \in Current(c)' : t.node = u.node => t = u
<1> DEFINE slices == [k \in Node |-> NodeSlice(r.set, k)]
           msg(k) == Message(r, IF r.op = "query" THEN slices[k] ELSE <<>>)
           f == [k \in Node |-> Task(c, k, msg(k))]
           T == {f[k] : k \in Node}
<1>1. /\ tasks \in [Client -> SUBSET Goroutine] /\ serial \in [Client -> Nat]
      /\ \A t \in tasks[c] : t.serial \in 1..serial[c]
  BY SplitTypes DEF RInv, Control, Serials
<1>2. /\ serial' = [serial EXCEPT ![c] = @ + 1]
      /\ tasks' = [tasks EXCEPT ![c] = @ \cup {Task(c, k, msg(k)) : k \in Node}]
  BY DEF Gather, BeginGather, Begin
<1>3. {Task(c, k, msg(k)) : k \in Node} = T
  <2> HIDE DEF msg
  <2> QED
    OBVIOUS
<1>4. T = {Task(c, k, Message(r, IF r.op = "query" THEN NodeSlice(r.set, k) ELSE <<>>)) : k \in Node}
  <2>1. \A k \in Node : f[k] = Task(c, k, Message(r, IF r.op = "query" THEN NodeSlice(r.set, k) ELSE <<>>))
    OBVIOUS
  <2> HIDE DEF f
  <2> QED
    BY <2>1
<1>5. \A k \in Node : f[k].node = k /\ f[k].serial = serial'[c] /\ f[k].at = "write"
  <2> HIDE DEF msg
  <2> QED
    BY DEF Task
<1>6. tasks'[c] = tasks[c] \cup T /\ tasks' = [tasks EXCEPT ![c] = tasks[c] \cup T]
  <2> HIDE DEF f, T, msg
  <2> QED
    BY <1>1, <1>2, <1>3
<1> HIDE DEF f
<1>7. f \in [Node -> T]
  <2> HIDE DEF msg
  <2> QED
    BY DEF f
<1>8. \A p, q \in Node : f[p] = f[q] => p = q
  BY <1>5
<1>9. IsFiniteSet(T) /\ Cardinality(T) = Nodes
  BY <1>7, <1>8, OnePerNode
<1>10. \A t \in T : t.serial = serial'[c] /\ t.at = "write" /\ t.node \in Node
  BY <1>5
<1>11. \A t, u \in T : t.node = u.node => t = u
  BY <1>5
<1>12. \A k \in Node : \E t \in T : t.node = k
  BY <1>5
<1> HIDE DEF T
<1>13. serial'[c] = serial[c] + 1 /\ \A t \in tasks[c] : t.serial # serial'[c]
  BY <1>1, <1>2
<1>14. Current(c)' = T
  BY <1>6, <1>10, <1>13 DEF Current
<1> QED
  BY <1>4, <1>6, <1>9, <1>10, <1>11, <1>12, <1>14

LEMMA GatherReaders ==
  ASSUME RInv, NEW c \in Client, NEW r \in Call, Gather(c, r)
  PROVE  \A d \in Client : Readers(d)'
<1>1. /\ results \in [Client -> Seq(Result)]
      /\ serial \in [Client -> Nat] /\ pc \in [Client -> Labels] /\ Nodes \in Nat
  BY SplitTypes, NodeAssumption DEF RInv, Control
<1>2. /\ pc' = [pc EXCEPT ![c] = "gathering"]
      /\ serial' = [serial EXCEPT ![c] = @ + 1]
      /\ results' = [results EXCEPT ![c] = <<>>]
  BY DEF Gather, BeginGather, Begin
<1>3. /\ tasks' = [tasks EXCEPT ![c] = tasks'[c]]
      /\ IsFiniteSet(Current(c)') /\ Cardinality(Current(c)') = Nodes
      /\ \A t, u \in Current(c)' : t.node = u.node => t = u
  BY GatherStarts
<1>4. pc'[c] = "gathering" /\ results'[c] = <<>> /\ Len(<<>>) = 0
  BY <1>1, <1>2
<1>5. Readers(c)'
  <2>1. Len(results'[c]) + Cardinality(Current(c)') = Nodes
    BY <1>1, <1>3, <1>4
  <2> QED
    BY <1>3, <1>4, <2>1 DEF Readers
<1>6. /\ serial' = [serial EXCEPT ![c] = serial'[c]]
      /\ pc' = [pc EXCEPT ![c] = pc'[c]] /\ results' = [results EXCEPT ![c] = results'[c]]
  BY <1>1, <1>2
<1> QED
  BY <1>3, <1>5, <1>6, Others

\* The round of a load that is written next has a goroutine of its own.
LEMMA LoadStarts ==
  ASSUME RInv, NEW c \in Client, NEW k \in todo[c], LoadNext(c, k, NodeSlice(call[c].set, k)),
         NEW t, t = Task(c, k, Message(call[c], NodeSlice(call[c].set, k)))
  PROVE  /\ pc[c] = "loading" /\ results[c] = <<>> /\ Current(c) = {} /\ Current(c)' = {t}
         /\ tasks'[c] = tasks[c] \cup {t} /\ tasks' = [tasks EXCEPT ![c] = tasks'[c]]
         /\ t.node = k /\ t.at = "write" /\ t.serial = serial[c]
         /\ t.msg = Message(call[c], NodeSlice(call[c].set, k))
         /\ UNCHANGED <<nodeVars, pc, call, serial, todo, results, out, historyVars>>
<1>1. /\ pc[c] = "loading" /\ results[c] = <<>> /\ (\A u \in tasks[c] : u.serial # serial[c])
      /\ serial' = serial /\ tasks' = [tasks EXCEPT ![c] = tasks[c] \cup {t}]
      /\ UNCHANGED <<nodeVars, pc, call, serial, todo, results, out, historyVars>>
  BY DEF LoadNext
<1>2. Current(c) = {}
  BY <1>1 DEF Current
<1>3. /\ t.node = k /\ t.at = "write" /\ t.serial = serial[c]
      /\ t.msg = Message(call[c], NodeSlice(call[c].set, k))
  BY <1>1 DEF Task
<1>4. tasks'[c] = tasks[c] \cup {t} /\ tasks' = [tasks EXCEPT ![c] = tasks'[c]]
  BY <1>1, SplitTypes DEF RInv, Control
<1>5. Current(c)' = {t}
  BY <1>1, <1>3, <1>4 DEF Current
<1> QED
  BY <1>1, <1>2, <1>3, <1>4, <1>5

\* A call that begins has no goroutine yet.
LEMMA NoneCurrent ==
  ASSUME RInv, NEW c \in Client, tasks'[c] = tasks[c], serial'[c] = serial[c] + 1
  PROVE  Current(c)' = {}
<1>1. serial[c] \in Nat /\ \A t \in tasks[c] : t.serial \in 1..serial[c]
  BY SplitTypes DEF RInv, Control, Serials
<1> QED
  BY <1>1 DEF Current

\* The other steps of a client start or leave no goroutine, or start the one of a load.
LEMMA QuietReaders ==
  ASSUME RInv, NEW c \in Client,
         \/ Dial(c) \/ LoadAck(c) \/ Collect(c) \/ Taken(c)
         \/ \E k \in todo[c] : LoadNext(c, k, NodeSlice(call[c].set, k))
         \/ \E r \in Call : BeginLoad(c, r)
  PROVE  \A d \in Client : Readers(d)'
<1>1. /\ tasks \in [Client -> SUBSET Goroutine] /\ results \in [Client -> Seq(Result)]
      /\ serial \in [Client -> Nat] /\ pc \in [Client -> Labels] /\ Readers(c)
      /\ Nodes \in Nat \ {0}
  BY SplitTypes, NodeAssumption DEF RInv, Control
<1>2. CASE Dial(c)
  <2>1. /\ tasks' = [tasks EXCEPT ![c] = {}] /\ pc' = [pc EXCEPT ![c] = "idle"]
        /\ serial' = serial /\ results' = results
    BY <1>2 DEF Dial, callVars
  <2>2. Readers(c)'
    BY <1>1, <2>1 DEF Readers, Current
  <2> QED
    BY <1>1, <2>1, <2>2, Others
<1>3. CASE \E k \in todo[c] : LoadNext(c, k, NodeSlice(call[c].set, k))
  <2>1. PICK k \in todo[c] : LoadNext(c, k, NodeSlice(call[c].set, k))
    BY <1>3
  <2>2. PICK t : t = Task(c, k, Message(call[c], NodeSlice(call[c].set, k)))
    OBVIOUS
  <2>3. /\ pc[c] = "loading" /\ results[c] = <<>> /\ Current(c)' = {t}
        /\ tasks' = [tasks EXCEPT ![c] = tasks'[c]]
        /\ UNCHANGED <<pc, serial, results>>
    BY <2>1, <2>2, LoadStarts
  <2>6. Readers(c)'
    BY <1>1, <2>3 DEF Readers
  <2> QED
    BY <1>1, <2>3, <2>6, Others
<1>4. CASE LoadAck(c)
  <2>1. /\ pc[c] = "loading" /\ results[c] # <<>> /\ tasks' = tasks /\ serial' = serial
        /\ results' = [results EXCEPT ![c] = <<>>]
        /\ pc' = pc \/ pc' = [pc EXCEPT ![c] = "returned"]
    BY <1>4 DEF LoadAck, Return, callVars
  <2>2. Current(c)' = {} /\ pc'[c] \in {"loading", "returned"} /\ pc' = [pc EXCEPT ![c] = pc'[c]]
    BY <1>1, <2>1 DEF Readers, Current
  <2>3. Readers(c)'
    BY <2>2 DEF Readers
  <2> QED
    BY <1>1, <2>1, <2>2, <2>3, Others
<1>5. CASE Collect(c)
  <2>1. UNCHANGED <<tasks, serial, results>> /\ pc' = [pc EXCEPT ![c] = "returned"]
    BY <1>5 DEF Collect, Return, callVars
  <2>2. Current(c)' = Current(c) /\ pc'[c] = "returned"
    BY <1>1, <2>1 DEF Current
  <2>3. Readers(c)'
    BY <1>1, <2>2 DEF Readers
  <2> QED
    BY <1>1, <2>1, <2>3, Others
<1>6. CASE Taken(c)
  <2>1. /\ UNCHANGED <<tasks, serial>>
        /\ pc' = [pc EXCEPT ![c] = "idle"] /\ results' = [results EXCEPT ![c] = <<>>]
    BY <1>6 DEF Taken
  <2>2. Current(c)' = Current(c) /\ pc'[c] = "idle"
    BY <1>1, <2>1 DEF Current
  <2>3. Readers(c)'
    BY <1>1, <2>2 DEF Readers
  <2> QED
    BY <1>1, <2>1, <2>3, Others
<1>7. CASE \E r \in Call : BeginLoad(c, r)
  <2>1. /\ tasks' = tasks /\ serial' = [serial EXCEPT ![c] = @ + 1]
        /\ pc' = [pc EXCEPT ![c] = "loading"] /\ results' = [results EXCEPT ![c] = <<>>]
    BY <1>7 DEF BeginLoad, Begin
  <2>2. Current(c)' = {}
    BY <1>1, <2>1, NoneCurrent
  <2>3. Readers(c)'
    BY <1>1, <2>1, <2>2 DEF Readers
  <2> QED
    BY <1>1, <2>1, <2>3, Others
<1> QED
  BY <1>2, <1>3, <1>4, <1>5, <1>6, <1>7

LEMMA InitReaders == Init => RInv
<1> SUFFICES ASSUME Init PROVE RInv
  OBVIOUS
<1>1. \A c \in Client : tasks[c] = {} /\ pc[c] = "new"
  BY DEF Init, ClientInit
<1>2. \A c \in Client : Readers(c)
  BY <1>1 DEF Readers, Current
<1> QED
  BY <1>2, InitTypes DEF RInv

LEMMA StepReaders == RInv /\ [Next]_vars => RInv'
<1> SUFFICES ASSUME RInv, [Next]_vars PROVE RInv'
  OBVIOUS
<1>1. TInv'
  BY StepTypes DEF RInv
<1>2. CASE UNCHANGED <<tasks, serial, pc, results>>
  <2>1. \A c \in Client : Readers(c)'
    BY <1>2, Untouched DEF RInv
  <2> QED
    BY <1>1, <2>1 DEF RInv
<1>3. ASSUME NEW c \in Client,
             \/ Dial(c) \/ Step(c) \/ \E r \in Call : BeginLoad(c, r) \/ Gather(c, r)
      PROVE  RInv'
  <2>1. \A d \in Client : Readers(d)'
    BY <1>3, QuietReaders, GatherReaders, RunReaders DEF Step
  <2> QED
    BY <1>1, <2>1 DEF RInv
<1>4. ASSUME NEW c \in Client, NEW k \in Node, Serve(c, k) PROVE RInv'
  BY <1>2, <1>4 DEF Serve, callVars
<1>5. ASSUME NEW k \in Node, ServeLate(k) \/ NodeDies(k) PROVE RInv'
  BY <1>2, <1>5 DEF ServeLate, NodeDies, callVars
<1>6. CASE Network
  BY <1>2, <1>6 DEF Network, callVars
<1>7. CASE UNCHANGED vars
  BY <1>2, <1>7 DEF vars, callVars
<1> QED
  BY <1>3, <1>4, <1>5, <1>6, <1>7 DEF Next

-----------------------------------------------------------------------------
(* What counts as an answer *)

Busy(c) == pc[c] \in {"loading", "gathering"}

\* What a call sends to node k.
Request(c, k) ==
  Message(call[c], IF call[c].op = "stored" THEN <<>> ELSE NodeSlice(call[c].set, k))

\* Every history knows that a name may have version v: a node may store it.
Counted(x, v) ==
  /\ v \in value[x]
  /\ \A d \in Client :
       /\ Loading(d, x) => v \in since[d]
       /\ pc[d] = "gathering" /\ seen[d][x] # {} => v \in seen[d][x]

\* A load's version counts from its beginning; its goroutine is the call's.
Calls(c) ==
  /\ pc[c] = "loading" => call[c].op = "load" /\ Counted(call[c].name, call[c].set)
  /\ pc[c] = "gathering" => call[c].op \in {"stored", "query"}
  /\ \A t \in tasks[c] : t.msg.op = "load" =>
       pc[c] = "loading" /\ t.serial = serial[c] /\ t.msg = Request(c, t.node)

\* The slices on their way to a node are of versions that count, those that a load
\* left behind when it returned an error included.
Flying(c) ==
  \A k \in Node : \A i \in DOMAIN inbox[c][k] :
    LET m == inbox[c][k][i]
    IN  m.op = "load" => m.words = NodeSlice(m.set, k) /\ Counted(m.name, m.set)

\* So are those that a closed connection still brings.
Stale ==
  \A k \in Node : \A old \in late[k] : \A i \in DOMAIN old.queue :
    LET m == old.queue[i]
    IN  m.op = "load" => m.words = NodeSlice(m.set, k) /\ Counted(m.name, m.set)

\* What a node stores under a name is its slice of a version the name may have.
Stores == \A k \in Node, y \in Name : OneOf(sets[k][y], value[y], k)

History == Stores /\ Stale /\ \A c \in Client : Calls(c) /\ Flying(c)

-----------------------------------------------------------------------------
(* A client whose connections carry its own call alone *)

\* Node k's answer to client c may be m: the load's slice is stored, or m bits
\* are shared by two versions that the query may see.
IsAnswer(c, k, m) ==
  IF call[c].op = "load" THEN OneOf(sets[k][call[c].name], since[c], k)
  ELSE \E f \in seen[c][call[c].name], g \in Against(call[c], seen[c]) :
         m = Cardinality(Shared(f, g, k))

Prefix(o, s) == Len(o) <= Len(s) /\ \A q \in 1..Len(o) : o[q] = s[q]

\* What came of a reply, from its byte number from on.
Answering(c, k, o, from) ==
  o = <<>> \/ \E m \in Nat : IsAnswer(c, k, m) /\ Prefix(o, SubSeq(Reply(m), from, 12))

\* A goroutine's request, or its reply or what it has not read of it, is all there is
\* on its connection.
Exchange(c, t) ==
  LET k == t.node
      all == t.got \o outbox[c][k]
  IN
  /\ t.msg = Request(c, k)
  /\ inbox[c][k] # <<>> => /\ t.at = "header" /\ inbox[c][k] = <<t.msg>> /\ link[c][k] = "open"
                           /\ all = <<>> /\ outbox[c][k] = <<>>
  /\ t.at = "write" => outbox[c][k] = <<>>
  /\ t.at = "header" => t.len = 4 /\ Answering(c, k, all, 1)
  /\ t.at = "body" => t.len = 8 /\ Answering(c, k, all, 5)

\* All goroutines are of the call in progress, and connections without one are silent;
\* results are answers or tell of a broken connection.
Talks(c) ==
  /\ \A t \in tasks[c] : t.serial = serial[c] /\ Exchange(c, t)
  /\ \A k \in Node : (\A t \in tasks[c] : t.node # k) => inbox[c][k] = <<>> /\ outbox[c][k] = <<>>
  /\ \A q \in 1..Len(results[c]) :
       LET r == results[c][q] IN
       /\ \A t \in tasks[c] : t.node # r.node
       /\ Busy(c) => IF r.ok THEN IsAnswer(c, r.node, r.count) ELSE link[c][r.node] = "broken"

\* What a load has brought about so far.
Loads(c) ==
  pc[c] = "loading" =>
    /\ call[c].set \in since[c]
    /\ \A k \in Node \ todo[c] : OneOf(sets[k][call[c].name], since[c], k)

\* Every node answers a gather once, from versions it sees.
Gathers(c) ==
  pc[c] = "gathering" =>
    /\ \A y \in Operands(call[c]) : seen[c][y] # {}
    /\ \A k \in Node : \/ \E t \in tasks[c] : t.node = k
                       \/ \E q \in 1..Len(results[c]) : results[c][q].node = k
    /\ \A p, q \in 1..Len(results[c]) : results[c][p].node = results[c][q].node => p = q
    /\ \A k \in Node, y \in Operands(call[c]) :
         link[c][k] = "open" => OneOf(sets[k][y], seen[c][y], k)

Exact(c) ==
  (pc[c] = "returned" /\ call[c].op # "load" /\ out[c].ok) =>
    out[c].count \in Counts(call[c], Home, seen[c])

Clean(c) ==
  /\ pc[c] # "panicked"
  /\ tasks[c] # {} => Busy(c)
  /\ Talks(c) /\ Loads(c) /\ Gathers(c) /\ Exact(c)

-----------------------------------------------------------------------------
(* A client that a connection has failed *)

\* Connection k is broken and empty. Until the client connects again no call of its
\* ends well, whatever the goroutines of a gather that failed read of other replies.
DoomedBy(c, k) ==
  /\ link[c][k] = "broken" /\ outbox[c][k] = <<>>
  /\ Busy(c) => /\ \A t \in Current(c) : t.node = k =>
                     t.at = "write" \/ (t.at = "header" /\ t.len = 4 /\ t.got = <<>>)
                /\ \A q \in 1..Len(results[c]) : results[c][q].node = k => ~results[c][q].ok
  /\ pc[c] = "gathering" => \/ \E t \in Current(c) : t.node = k
                            \/ \E q \in 1..Len(results[c]) : results[c][q].node = k
  /\ pc[c] = "loading" => k \in todo[c]
  /\ pc[c] = "returned" => ~out[c].ok

Doomed(c) == \E k \in Node : DoomedBy(c, k)

\* The types of the variables that RInv leaves open.
Views == DOMAIN out = Client /\ seen \in [Client -> [Name -> SUBSET Global]]

AInv == RInv /\ Views /\ History /\ \A c \in Client : Clean(c) \/ Doomed(c)

LEMMA InitAnswers == Init => AInv
<1> SUFFICES ASSUME Init PROVE AInv
  OBVIOUS
<1>1. \A c \in Client : tasks[c] = {} /\ pc[c] = "new" /\ results[c] = <<>>
                        /\ \A k \in Node : inbox[c][k] = <<>> /\ outbox[c][k] = <<>>
  BY DEF Init, ClientInit, NodeInit
<1>2. \A c \in Client : Clean(c) /\ Calls(c) /\ Flying(c)
  <2> TAKE c \in Client
  <2>1. 1..Len(results[c]) = {} /\ \A k \in Node : DOMAIN inbox[c][k] = {}
    BY <1>1
  <2>2. Talks(c) /\ Flying(c)
    BY <1>1, <2>1 DEF Talks, Flying
  <2> QED
    BY <1>1, <2>2 DEF Clean, Calls, Loads, Gathers, Exact
<1>3. Stores
  <2> SUFFICES ASSUME NEW k \in Node, NEW y \in Name PROVE OneOf(sets[k][y], value[y], k)
    BY DEF Stores
  <2>1. sets[k][y] = <<>> /\ value[y] = {Empty}
    BY DEF Init, ClientInit, NodeInit
  <2> QED
    BY <2>1 DEF OneOf, Sliced
<1>5. Stale
  BY DEF Init, ClientInit, NodeInit, Stale
<1>4. Views
  BY DEF Init, ClientInit, Views, Nothing
<1> QED
  BY <1>2, <1>3, <1>4, <1>5, InitReaders DEF AInv, History

\* The shapes of the variables, for the steps below.
LEMMA Shapes ==
  ASSUME AInv
  PROVE  /\ tasks \in [Client -> SUBSET Goroutine] /\ results \in [Client -> Seq(Result)]
         /\ inbox \in [Client -> [Node -> Seq(Msg)]] /\ outbox \in [Client -> [Node -> Seq(Bytes)]]
         /\ link \in [Client -> [Node -> {"closed", "open", "broken"}]]
         /\ sets \in [Node -> [Name -> Seq(Word)]] /\ late \in [Node -> SUBSET Old]
         /\ pc \in [Client -> Labels] /\ call \in [Client -> Call \cup {NoCall}]
         /\ serial \in [Client -> Nat] /\ todo \in [Client -> SUBSET Node]
         /\ value \in [Name -> SUBSET Global] /\ since \in [Client -> SUBSET Global]
         /\ DOMAIN out = Client /\ seen \in [Client -> [Name -> SUBSET Global]]
         /\ \A y \in Name : value[y] # {}
BY SplitTypes DEF AInv, RInv, Control, NodeTypeOK, Views

\* The call that a client is in.
LEMMA InCall ==
  ASSUME AInv, NEW c \in Client, Busy(c)
  PROVE  /\ call[c] \in Call
         /\ call[c].name \in Name /\ call[c].with \in Name /\ call[c].set \in Global
         /\ call[c].op = "load" <=> pc[c] = "loading"
         /\ call[c].op \in {"load", "stored", "query"}
         /\ Operands(call[c]) \subseteq Name
<1>1. call[c] \in Call
  BY DEF AInv, RInv, TInv, Control, Busy
<1>2. call[c].name \in Name /\ call[c].with \in Name /\ call[c].set \in Global
  BY <1>1, ClientAssumption
<1> QED
  BY <1>1, <1>2 DEF AInv, History, Calls, Busy, Operands

LEMMA Grows ==
  ASSUME NEW s, NEW k, NEW V, NEW W, V \subseteq W, OneOf(s, V, k)
  PROVE  OneOf(s, W, k)
BY DEF OneOf

LEMMA StepViews == AInv /\ [Next]_vars => Views'
<1> SUFFICES ASSUME AInv, [Next]_vars PROVE Views'
  OBVIOUS
<1> USE DEF Views
<1>1. DOMAIN out = Client /\ seen \in [Client -> [Name -> SUBSET Global]] /\ TInv
  BY DEF AInv, RInv
<1>2. Nothing \in [Name -> SUBSET Global]
  BY DEF Nothing
<1>3. CASE UNCHANGED seen /\ (UNCHANGED out \/ \E c \in Client : \E ok, k : Return(c, ok, k))
  BY <1>1, <1>3 DEF Return
<1>4. ASSUME NEW c \in Client, NEW r \in Call, BeginLoad(c, r) PROVE Views'
  <2>1. r.name \in Name /\ r.set \in Global
    BY ClientAssumption
  <2>2. out' = out /\ seen' = [d \in Client |->
          IF pc[d] = "gathering" /\ seen[d][r.name] # {}
          THEN [seen[d] EXCEPT ![r.name] = @ \cup {r.set}] ELSE seen[d]]
    BY <1>4 DEF BeginLoad, Begin
  <2> QED
    BY <1>1, <2>1, <2>2
<1>5. ASSUME NEW c \in Client, NEW r \in Call, Gather(c, r) PROVE Views'
  <2>1. out' = out /\ seen' = [seen EXCEPT ![c] =
                IF \E n \in Node : link[c][n] = "broken" THEN Nothing
                ELSE [x \in Name |-> IF x \in Operands(r) THEN value[x] ELSE {}]]
    BY <1>5 DEF Gather, BeginGather, Begin
  <2>2. [x \in Name |-> IF x \in Operands(r) THEN value[x] ELSE {}] \in [Name -> SUBSET Global]
    BY <1>1, SplitTypes DEF Control
  <2> QED
    BY <1>1, <1>2, <2>1, <2>2
<1>6. ASSUME NEW c \in Client, Taken(c) PROVE Views'
  BY <1>1, <1>2, <1>6 DEF Taken
<1>7. ASSUME NEW c \in Client, Collect(c) \/ LoadAck(c) PROVE Views'
  <2>1. seen' = seen /\ (out' = out \/ \E ok, k : Return(c, ok, k))
    BY <1>7 DEF Collect, LoadAck, historyVars
  <2> QED
    BY <1>3, <2>1
<1>8. ASSUME NEW c \in Client, (\E k \in todo[c] : LoadNext(c, k, NodeSlice(call[c].set, k))) \/ Dial(c) \/ Run(c) PROVE Views'
  <2>1. seen' = seen /\ out' = out
    BY <1>8, RunCases DEF LoadNext, Dial, Run, historyVars
  <2> QED
    BY <1>3, <2>1
<1>9. ASSUME \/ \E c \in Client, k \in Node : Serve(c, k)
             \/ \E k \in Node : ServeLate(k) \/ NodeDies(k)
             \/ Network \/ UNCHANGED vars
      PROVE  Views'
  BY <1>3, <1>9 DEF Serve, ServeLate, NodeDies, Network, vars, historyVars
<1> QED
  BY <1>4, <1>5, <1>6, <1>7, <1>8, <1>9 DEF Next, Step

-----------------------------------------------------------------------------
(* The histories *)

\* A version goes on counting while histories only grow, or take it in.
LEMMA CountedKept ==
  ASSUME NEW x, NEW v, Counted(x, v), v \in value'[x],
         \A d \in Client : Loading(d, x)' =>
            v \in since'[d] \/ (Loading(d, x) /\ since[d] \subseteq since'[d]),
         \A d \in Client : pc'[d] = "gathering" /\ seen'[d][x] # {} =>
            \/ v \in seen'[d][x]
            \/ pc[d] = "gathering" /\ seen[d][x] # {} /\ seen[d][x] \subseteq seen'[d][x]
  PROVE  Counted(x, v)'
BY DEF Counted

\* A client's step that begins no load.
LEMMA CountedElsewhere ==
  ASSUME NEW c \in Client, NEW x, NEW v, Counted(x, v), v \in value'[x],
         \A d \in Client \ {c} : UNCHANGED <<pc[d], call[d], since[d], seen[d]>>,
         \/ pc'[c] \notin {"loading", "gathering"}
         \/ UNCHANGED <<pc[c], call[c], since[c], seen[c]>>
         \/ pc'[c] = "gathering" /\ (seen'[c][x] = {} \/ v \in seen'[c][x])
  PROVE  Counted(x, v)'
<1>1. ASSUME NEW d \in Client, Loading(d, x)'
      PROVE  Loading(d, x) /\ since[d] \subseteq since'[d]
  BY <1>1 DEF Loading
<1>2. ASSUME NEW d \in Client, pc'[d] = "gathering", seen'[d][x] # {}
      PROVE  \/ v \in seen'[d][x]
             \/ pc[d] = "gathering" /\ seen[d][x] # {} /\ seen[d][x] \subseteq seen'[d][x]
  BY <1>2
<1> QED
  BY <1>1, <1>2, CountedKept

LEMMA CallsKept ==
  ASSUME NEW d \in Client, Calls(d), UNCHANGED <<pc[d], call[d], serial[d]>>,
         \A t \in tasks'[d] : \E u \in tasks[d] :
            t.msg = u.msg /\ t.serial = u.serial /\ t.node = u.node,
         pc[d] = "loading" => Counted(call[d].name, call[d].set)'
  PROVE  Calls(d)'
BY DEF Calls, Request

LEMMA FlyingKept ==
  ASSUME NEW d \in Client, Flying(d),
         \A k \in Node : \A i \in DOMAIN inbox'[d][k] :
            \E j \in DOMAIN inbox[d][k] : inbox'[d][k][i] = inbox[d][k][j],
         \A k \in Node : \A i \in DOMAIN inbox[d][k] :
            \A m : m = inbox[d][k][i] /\ m.op = "load" => Counted(m.name, m.set)'
  PROVE  Flying(d)'
<1> SUFFICES ASSUME NEW k \in Node, NEW i \in DOMAIN inbox'[d][k], inbox'[d][k][i].op = "load"
             PROVE  /\ inbox'[d][k][i].words = NodeSlice(inbox'[d][k][i].set, k)
                    /\ Counted(inbox[d][k][i].name, inbox[d][k][i].set)'
  BY DEF Flying
<1>1. PICK j \in DOMAIN inbox[d][k] : inbox'[d][k][i] = inbox[d][k][j]
  OBVIOUS
<1>2. PICK m : m = inbox[d][k][j] /\ m.op = "load"
  BY <1>1
<1>3. m.words = NodeSlice(m.set, k) /\ Counted(m.name, m.set)'
  BY <1>2 DEF Flying
<1>4. inbox'[d][k][i] = m
  BY <1>1, <1>2
<1> QED
  BY <1>3, <1>4

\* The names that messages carry.
LEMMA Named ==
  ASSUME AInv, NEW d \in Client, NEW k \in Node, NEW i \in DOMAIN inbox[d][k]
  PROVE  inbox[d][k][i].name \in Name
<1>1. inbox[d][k] \in Seq(Msg)
  BY Shapes
<1>2. inbox[d][k][i] \in Msg
  BY <1>1
<1> QED
  BY <1>2 DEF Msg

LEMMA NamedLate ==
  ASSUME AInv, NEW k \in Node, NEW old \in late[k], NEW i \in DOMAIN old.queue
  PROVE  old.queue[i].name \in Name
<1>1. old \in Old
  BY Shapes
<1>2. old.queue \in Seq(Msg)
  BY <1>1 DEF Old
<1>3. old.queue[i] \in Msg
  BY <1>2
<1> QED
  BY <1>3 DEF Msg

\* Closed connections bring what they brought, or what client c's connections did.
Brought(c) ==
  \A k \in Node : \A old \in late'[k] : \A i \in DOMAIN old.queue :
    \/ \E o \in late[k] : \E j \in DOMAIN o.queue : old.queue[i] = o.queue[j]
    \/ \E j \in DOMAIN inbox[c][k] : old.queue[i] = inbox[c][k][j]

LEMMA SameBrought ==
  ASSUME NEW c, late' = late
  PROVE  Brought(c)
BY DEF Brought

LEMMA StaleKept ==
  ASSUME AInv, NEW c \in Client, Brought(c),
         \A k \in Node : \A old \in late[k] : \A i \in DOMAIN old.queue :
            \A m : m = old.queue[i] /\ m.op = "load" => Counted(m.name, m.set)',
         \A k \in Node : \A i \in DOMAIN inbox[c][k] :
            \A m : m = inbox[c][k][i] /\ m.op = "load" => Counted(m.name, m.set)'
  PROVE  Stale'
<1> SUFFICES ASSUME NEW k \in Node, NEW old \in late'[k], NEW i \in DOMAIN old.queue,
                    old.queue[i].op = "load"
             PROVE  /\ old.queue[i].words = NodeSlice(old.queue[i].set, k)
                    /\ Counted(old.queue[i].name, old.queue[i].set)'
  BY DEF Stale
<1>1. PICK m : m = old.queue[i] /\ m.op = "load"
  OBVIOUS
<1>2. m.words = NodeSlice(m.set, k) /\ Counted(m.name, m.set)'
  <2>1. ASSUME NEW o \in late[k], NEW j \in DOMAIN o.queue, m = o.queue[j]
        PROVE  m.words = NodeSlice(m.set, k) /\ Counted(m.name, m.set)'
    BY <1>1, <2>1 DEF AInv, History, Stale
  <2>2. ASSUME NEW j \in DOMAIN inbox[c][k], m = inbox[c][k][j]
        PROVE  m.words = NodeSlice(m.set, k) /\ Counted(m.name, m.set)'
    BY <1>1, <2>2 DEF AInv, History, Flying
  <2> QED
    BY <1>1, <2>1, <2>2 DEF Brought
<1> QED
  BY <1>1, <1>2

\* The versions that messages carry go on counting if those of all names do.
LEMMA MessagesCount ==
  ASSUME AInv, \A x \in Name : \A v : Counted(x, v) => Counted(x, v)'
  PROVE  /\ \A k \in Node : \A old \in late[k] : \A i \in DOMAIN old.queue :
              \A m : m = old.queue[i] /\ m.op = "load" => Counted(m.name, m.set)'
         /\ \A d \in Client : \A k \in Node : \A i \in DOMAIN inbox[d][k] :
              \A m : m = inbox[d][k][i] /\ m.op = "load" => Counted(m.name, m.set)'
<1>1. ASSUME NEW k \in Node, NEW old \in late[k], NEW i \in DOMAIN old.queue,
             NEW m, m = old.queue[i], m.op = "load"
      PROVE  Counted(m.name, m.set)'
  <2>1. m.name \in Name /\ Counted(m.name, m.set)
    BY <1>1, NamedLate DEF AInv, History, Stale
  <2> QED
    BY <2>1
<1>2. ASSUME NEW d \in Client, NEW k \in Node, NEW i \in DOMAIN inbox[d][k],
             NEW m, m = inbox[d][k][i], m.op = "load"
      PROVE  Counted(m.name, m.set)'
  <2>1. m.name \in Name /\ Counted(m.name, m.set)
    BY <1>2, Named DEF AInv, History, Flying
  <2> QED
    BY <2>1
<1> QED
  BY <1>1, <1>2

\* What is left to show of a step of client c that begins no load.
LEMMA HistoryKept ==
  ASSUME AInv, NEW c \in Client,
         \A x \in Name : \A v : Counted(x, v) => Counted(x, v)',
         \A d \in Client \ {c} : UNCHANGED <<tasks[d], serial[d], pc[d], call[d], inbox[d]>>,
         Calls(c)', Flying(c)', Brought(c),
         \A k \in Node, y \in Name : OneOf(sets[k][y], value[y], k) => OneOf(sets'[k][y], value'[y], k)
  PROVE  History'
<1>1. ASSUME NEW d \in Client, d # c PROVE Calls(d)' /\ Flying(d)'
  <2>1. UNCHANGED <<tasks[d], serial[d], pc[d], call[d], inbox[d]>>
    BY <1>1
  <2>2. Calls(d) /\ Flying(d)
    BY DEF AInv, History
  <2>3. pc[d] = "loading" => Counted(call[d].name, call[d].set)'
    <3> SUFFICES ASSUME pc[d] = "loading" PROVE Counted(call[d].name, call[d].set)'
      OBVIOUS
    <3>0. PICK x \in Name : x = call[d].name
      BY InCall DEF Busy
    <3>1. PICK v : x = call[d].name /\ v = call[d].set
      BY <3>0
    <3>2. Counted(x, v)'
      BY <2>2, <3>1 DEF Calls
    <3> QED
      BY <2>1, <3>1, <3>2
  <2>4. ASSUME NEW k \in Node, NEW i \in DOMAIN inbox[d][k],
               NEW m, m = inbox[d][k][i], m.op = "load"
        PROVE  Counted(m.name, m.set)'
    <3>1. m.name \in Name /\ Counted(m.name, m.set)
      BY <2>2, <2>4, Named DEF Flying
    <3> QED
      BY <3>1
  <2>5. Flying(d)'
    BY <2>1, <2>2, <2>4, FlyingKept
  <2>6. Calls(d)'
    BY <2>1, <2>2, <2>3, CallsKept
  <2> QED
    BY <2>5, <2>6
<1>2. Stores'
  BY DEF AInv, History, Stores
<1>3. Stale'
  BY MessagesCount, StaleKept
<1> QED
  BY <1>1, <1>2, <1>3 DEF History

\* A client whose call is over, or that has none, has nothing to add to a history.
LEMMA OverHistory ==
  ASSUME AInv, NEW c \in Client, pc'[c] \notin {"loading", "gathering"},
         \A x \in Name : \A v : Counted(x, v) => v \in value'[x],
         \A k \in Node, y \in Name : OneOf(sets[k][y], value[y], k) => OneOf(sets'[k][y], value'[y], k),
         \A d \in Client \ {c} :
           UNCHANGED <<tasks[d], serial[d], pc[d], call[d], inbox[d], since[d], seen[d]>>,
         \A t \in tasks'[c] : t.msg.op # "load",
         inbox'[c] = inbox[c] \/ \A k \in Node : inbox'[c][k] = <<>>, Brought(c)
  PROVE  History'
<1>1. ASSUME NEW x \in Name, NEW v, Counted(x, v) PROVE Counted(x, v)'
  <2>1. v \in value'[x]
    BY <1>1
  <2> QED
    BY <1>1, <2>1, CountedElsewhere
<1>2. Calls(c)'
  BY DEF Calls
<1>3. Flying(c)'
  <2>1. ASSUME NEW k \in Node, NEW i \in DOMAIN inbox[c][k], NEW m, m = inbox[c][k][i], m.op = "load"
        PROVE  Counted(m.name, m.set)'
    <3>1. m.name \in Name /\ Counted(m.name, m.set)
      BY <2>1, Named DEF AInv, History, Flying
    <3> QED
      BY <1>1, <3>1
  <2>2. Flying(c)
    BY DEF AInv, History
  <2>3. CASE inbox'[c] = inbox[c]
    BY <2>1, <2>2, <2>3, FlyingKept
  <2>4. CASE \A k \in Node : inbox'[c][k] = <<>>
    <3>1. \A k \in Node : DOMAIN inbox'[c][k] = {}
      BY <2>4
    <3> QED
      BY <3>1 DEF Flying
  <2> QED
    BY <2>3, <2>4
<1> QED
  BY <1>1, <1>2, <1>3, HistoryKept

LEMMA QuietHistory ==
  ASSUME AInv, NEW c \in Client, pc'[c] \notin {"loading", "gathering"},
         UNCHANGED <<sets, value>>,
         \A d \in Client \ {c} :
           UNCHANGED <<tasks[d], serial[d], pc[d], call[d], inbox[d], since[d], seen[d]>>,
         \A t \in tasks'[c] : t.msg.op # "load",
         inbox'[c] = inbox[c] \/ \A k \in Node : inbox'[c][k] = <<>>, Brought(c)
  PROVE  History'
<1>1. \A x \in Name : \A v : Counted(x, v) => v \in value'[x]
  BY DEF Counted
<1> QED
  BY <1>1, OverHistory

\* A step in the middle of a call sends no other slices than the call's.
LEMMA SameHistory ==
  ASSUME AInv, NEW c \in Client, Brought(c), UNCHANGED <<pc, call, value, since, seen>>,
         \A d \in Client \ {c} : UNCHANGED <<tasks[d], serial[d], inbox[d]>>,
         \A t \in tasks'[c] : t.msg.op = "load" =>
            pc[c] = "loading" /\ t.serial = serial'[c] /\ t.msg = Request(c, t.node),
         \A k \in Node : \A i \in DOMAIN inbox'[c][k] :
            \/ \E j \in DOMAIN inbox[c][k] : inbox'[c][k][i] = inbox[c][k][j]
            \/ \E t \in tasks[c] : t.node = k /\ inbox'[c][k][i] = t.msg,
         \A k \in Node, y \in Name : OneOf(sets[k][y], value[y], k) => OneOf(sets'[k][y], value[y], k)
  PROVE  History'
<1>1. \A x, v : Counted(x, v) => Counted(x, v)'
  BY DEF Counted, Loading
<1>2. Calls(c) /\ Flying(c)
  BY DEF AInv, History
<1>3. Calls(c)'
  <2>1. pc[c] = "loading" => Counted(call[c].name, call[c].set)'
    <3>1. PICK x, v : x = call[c].name /\ v = call[c].set
      OBVIOUS
    <3>2. pc[c] = "loading" => Counted(x, v)'
      BY <1>1, <1>2, <3>1 DEF Calls
    <3> QED
      BY <3>1, <3>2
  <2>2. pc'[c] = "gathering" => call'[c].op \in {"stored", "query"}
    BY <1>2 DEF Calls
  <2>3. pc'[c] = "loading" => call'[c].op = "load"
    BY <1>2 DEF Calls
  <2>4. ASSUME NEW t \in tasks'[c], t.msg.op = "load"
        PROVE  pc'[c] = "loading" /\ t.serial = serial'[c] /\ t.msg = Request(c, t.node)'
    BY <2>4 DEF Request
  <2> QED
    BY <2>1, <2>2, <2>3, <2>4 DEF Calls
<1>4. Flying(c)'
  <2> SUFFICES ASSUME NEW k \in Node, NEW i \in DOMAIN inbox'[c][k], inbox'[c][k][i].op = "load"
               PROVE  /\ inbox'[c][k][i].words = NodeSlice(inbox'[c][k][i].set, k)
                      /\ Counted(inbox[c][k][i].name, inbox[c][k][i].set)'
    BY DEF Flying
  <2>1. PICK m : m = inbox'[c][k][i]
    OBVIOUS
  <2>2. m.words = NodeSlice(m.set, k) /\ Counted(m.name, m.set)
    <3>1. CASE \E j \in DOMAIN inbox[c][k] : m = inbox[c][k][j]
      BY <1>2, <2>1, <3>1 DEF Flying
    <3>2. CASE \E t \in tasks[c] : t.node = k /\ m = t.msg
      <4>1. pc[c] = "loading" /\ m = Request(c, k)
        BY <1>2, <2>1, <3>2 DEF Calls
      <4>2. call[c].op = "load" /\ Counted(call[c].name, call[c].set)
        BY <1>2, <4>1 DEF Calls
      <4>3. m.words = NodeSlice(call[c].set, k) /\ m.set = call[c].set /\ m.name = call[c].name
        BY <4>1, <4>2 DEF Request, Message
      <4> QED
        BY <4>2, <4>3
    <3> QED
      BY <2>1, <3>1, <3>2
  <2>3. Counted(m.name, m.set)'
    BY <1>1, <2>2
  <2> QED
    BY <2>1, <2>2, <2>3
<1>5. \A x \in Name : \A v : Counted(x, v) => Counted(x, v)'
  BY <1>1
<1>6. \A k \in Node, y \in Name : OneOf(sets[k][y], value[y], k) => OneOf(sets'[k][y], value'[y], k)
  OBVIOUS
<1> QED
  BY <1>3, <1>4, <1>5, <1>6, HistoryKept

\* The steps between and at the end of calls.
LEMMA IdleHistory ==
  ASSUME AInv, NEW c \in Client, Dial(c) \/ Taken(c) \/ Collect(c)
  PROVE  History'
<1>1. \A t \in tasks[c] : t.msg.op = "load" => pc[c] = "loading"
  BY DEF AInv, History, Calls
<1>2. CASE Dial(c)
  <2>1. /\ tasks' = [tasks EXCEPT ![c] = {}] /\ pc' = [pc EXCEPT ![c] = "idle"]
        /\ inbox' = [inbox EXCEPT ![c] = [n \in Node |-> <<>>]]
        /\ late' = [n \in Node |-> late[n] \cup Leftover(c, n, serial[c])]
        /\ UNCHANGED <<sets, call, serial, value, since, seen>>
    BY <1>2 DEF Dial, callVars, historyVars
  <2>2. Brought(c)
    BY <2>1 DEF Brought, Leftover
  <2>3. pc'[c] \notin {"loading", "gathering"} /\ tasks'[c] = {} /\ \A k \in Node : inbox'[c][k] = <<>>
    BY <2>1, Shapes
  <2>4. \A d \in Client \ {c} :
          UNCHANGED <<tasks[d], serial[d], pc[d], call[d], inbox[d], since[d], seen[d]>>
    BY <2>1, Shapes
  <2> QED
    BY <2>1, <2>2, <2>3, <2>4, QuietHistory
<1>3. CASE Taken(c)
  <2>1. /\ tasks' = tasks /\ pc[c] = "returned" /\ pc' = [pc EXCEPT ![c] = "idle"]
        /\ call' = [call EXCEPT ![c] = NoCall]
        /\ seen' = [seen EXCEPT ![c] = Nothing] /\ since' = [since EXCEPT ![c] = {}]
        /\ UNCHANGED <<sets, serial, value, inbox, late>>
    BY <1>3 DEF Taken, nodeVars
  <2> QED
    BY <1>1, <2>1, Shapes, SameBrought, QuietHistory
<1>4. CASE Collect(c)
  <2>1. /\ pc[c] = "gathering" /\ pc' = [pc EXCEPT ![c] = "returned"]
        /\ UNCHANGED <<sets, call, serial, tasks, value, since, seen, inbox, late>>
    BY <1>4 DEF Collect, Return, nodeVars, callVars, historyVars
  <2> QED
    BY <1>1, <2>1, Shapes, SameBrought, QuietHistory
<1> QED
  BY <1>2, <1>3, <1>4

LEMMA LoadNextHistory ==
  ASSUME AInv, NEW c \in Client, NEW k \in todo[c], LoadNext(c, k, NodeSlice(call[c].set, k))
  PROVE  History'
<1>1. PICK t : t = Task(c, k, Message(call[c], NodeSlice(call[c].set, k)))
  OBVIOUS
<1>2. /\ pc[c] = "loading" /\ tasks'[c] = tasks[c] \cup {t}
      /\ tasks' = [tasks EXCEPT ![c] = tasks'[c]]
      /\ t.node = k /\ t.serial = serial[c]
      /\ t.msg = Message(call[c], NodeSlice(call[c].set, k))
      /\ UNCHANGED <<sets, inbox, late, pc, call, serial, value, since, seen>>
  BY <1>1, LoadStarts DEF AInv, nodeVars, historyVars
<1>3. Calls(c) /\ call[c].op = "load"
  BY <1>2 DEF AInv, History, Calls
<1>4. t.msg = Request(c, k)
  BY <1>2, <1>3 DEF Request
<1>5. \A u \in tasks'[c] : u.msg.op = "load" =>
         pc[c] = "loading" /\ u.serial = serial'[c] /\ u.msg = Request(c, u.node)
  BY <1>2, <1>3, <1>4 DEF Calls
<1>6. \A d \in Client \ {c} : UNCHANGED <<tasks[d], serial[d], inbox[d]>>
  BY <1>2, Shapes
<1> QED
  BY <1>2, <1>5, <1>6, SameBrought, SameHistory

LEMMA GatherHistory ==
  ASSUME AInv, NEW c \in Client, NEW r \in Call, Gather(c, r)
  PROVE  History'
<1>1. /\ pc[c] = "idle" /\ r.op \in {"stored", "query"}
      /\ pc' = [pc EXCEPT ![c] = "gathering"] /\ call' = [call EXCEPT ![c] = r]
      /\ serial' = [serial EXCEPT ![c] = @ + 1]
      /\ seen' = [seen EXCEPT ![c] =
                IF \E n \in Node : link[c][n] = "broken" THEN Nothing
                ELSE [x \in Name |-> IF x \in Operands(r) THEN value[x] ELSE {}]]
      /\ UNCHANGED <<inbox, late, sets, value, since>>
  BY DEF Gather, BeginGather, Begin, nodeVars
<1>2. /\ Current(c)' = {Task(c, k, Message(r, IF r.op = "query" THEN NodeSlice(r.set, k) ELSE <<>>)) :
                          k \in Node}
      /\ tasks'[c] = tasks[c] \cup Current(c)' /\ tasks' = [tasks EXCEPT ![c] = tasks'[c]]
  BY GatherStarts DEF AInv
<1>3. \A t \in tasks'[c] : t.msg.op # "load"
  <2>1. \A t \in Current(c)' : t.msg.op = r.op
    BY <1>2 DEF Task, Message
  <2>2. \A t \in tasks[c] : t.msg.op # "load"
    BY <1>1 DEF AInv, History, Calls
  <2> QED
    BY <1>1, <1>2, <2>1, <2>2
<1>4. ASSUME NEW x \in Name, NEW v, Counted(x, v) PROVE Counted(x, v)'
  <2>1. v \in value[x] /\ (seen'[c][x] = {} \/ seen'[c][x] = value[x])
    <3>1. seen'[c] = IF \E n \in Node : link[c][n] = "broken" THEN Nothing
                     ELSE [y \in Name |-> IF y \in Operands(r) THEN value[y] ELSE {}]
      BY <1>1, Shapes
    <3> QED
      BY <1>4, <3>1 DEF Counted, Nothing
  <2>2. pc'[c] = "gathering"
    BY <1>1, Shapes
  <2>3. \A d \in Client \ {c} : UNCHANGED <<pc[d], call[d], since[d], seen[d]>>
    BY <1>1, Shapes
  <2> QED
    BY <1>1, <1>4, <2>1, <2>2, <2>3, CountedElsewhere
<1>5. Calls(c)'
  BY <1>1, <1>3, Shapes DEF Calls
<1>6. ASSUME NEW k \in Node, NEW i \in DOMAIN inbox[c][k], NEW m, m = inbox[c][k][i], m.op = "load"
      PROVE  Counted(m.name, m.set)'
  <2>1. m.name \in Name /\ Counted(m.name, m.set)
    BY <1>6, Named DEF AInv, History, Flying
  <2> QED
    BY <1>4, <2>1
<1>7. Flying(c)'
  <2>1. Flying(c) /\ inbox'[c] = inbox[c]
    BY <1>1 DEF AInv, History
  <2> QED
    BY <1>6, <2>1, FlyingKept
<1>8. \A d \in Client \ {c} : UNCHANGED <<tasks[d], serial[d], pc[d], call[d], inbox[d]>>
  BY <1>1, <1>2, Shapes
<1>9. \A k \in Node, y \in Name : OneOf(sets[k][y], value[y], k) => OneOf(sets'[k][y], value'[y], k)
  BY <1>1
<1> QED
  BY <1>1, <1>4, <1>5, <1>7, <1>8, <1>9, SameBrought, HistoryKept

\* A goroutine writes its own message, or ends, or moves on.
LEMMA RunHistory ==
  ASSUME AInv, NEW c \in Client, Run(c)
  PROVE  History'
<1>1. PICK t \in tasks[c] :
        /\ UNCHANGED <<alive, sets, link, late, callVars, todo, out, historyVars>>
        /\ inbox' = inbox \/ inbox' = [inbox EXCEPT ![c][t.node] = Append(@, t.msg)]
        /\ \/ pc' = pc /\ \E at, len, got : Advance(c, t, at, len, got)
           \/ pc' = pc /\ \E ok, k : Deliver(c, t, ok, k)
           \/ /\ pc' = [pc EXCEPT ![c] = "panicked"]
              /\ tasks' = [tasks EXCEPT ![c] = {}] /\ UNCHANGED <<inbox, results>>
  BY RunCases DEF Run
<1>2. UNCHANGED <<sets, late, call, serial, value, since, seen>> /\ Brought(c)
  BY <1>1, SameBrought DEF callVars, historyVars
<1>5. t.node \in Node /\ Calls(c)
  BY Shapes DEF Goroutine, AInv, History
<1>6. TInv
  BY DEF AInv, RInv
<1>4. CASE /\ pc' = pc
           /\ \/ \E ok, v : Deliver(c, t, ok, v)
              \/ \E at, len, got : Advance(c, t, at, len, got)
           /\ inbox' = inbox \/ inbox' = [inbox EXCEPT ![c][t.node] = Append(@, t.msg)]
  <2>1. /\ tasks' = [tasks EXCEPT ![c] = tasks'[c]]
        /\ \A w \in tasks'[c] : \E u \in tasks[c] : w.msg = u.msg /\ w.serial = u.serial /\ w.node = u.node
    <3>1. ASSUME NEW ok, NEW v, Deliver(c, t, ok, v)
          PROVE  tasks' = [tasks EXCEPT ![c] = tasks'[c]] /\ tasks'[c] \subseteq tasks[c]
      BY <3>1, Shapes DEF Deliver
    <3>2. ASSUME NEW at, NEW len, NEW got, Advance(c, t, at, len, got)
          PROVE  /\ tasks' = [tasks EXCEPT ![c] = tasks'[c]]
                 /\ \A w \in tasks'[c] : \E u \in tasks[c] :
                      w.msg = u.msg /\ w.serial = u.serial /\ w.node = u.node
      <4>1. PICK u : /\ u.node = t.node /\ u.serial = t.serial /\ u.msg = t.msg
                     /\ tasks' = [tasks EXCEPT ![c] = (tasks[c] \ {t}) \cup {u}]
                     /\ tasks'[c] = (tasks[c] \ {t}) \cup {u}
        BY <1>6, <3>2, Moved
      <4> QED
        BY <4>1
    <3> QED
      BY <1>4, <3>1, <3>2
  <2>2. ASSUME NEW w \in tasks'[c], w.msg.op = "load"
        PROVE  pc[c] = "loading" /\ w.serial = serial'[c] /\ w.msg = Request(c, w.node)
    BY <1>2, <1>5, <2>1, <2>2 DEF Calls
  <2>3. ASSUME NEW k \in Node, NEW i \in DOMAIN inbox'[c][k]
        PROVE  \/ \E j \in DOMAIN inbox[c][k] : inbox'[c][k][i] = inbox[c][k][j]
               \/ \E u \in tasks[c] : u.node = k /\ inbox'[c][k][i] = u.msg
    <3>1. CASE inbox'[c][k] = inbox[c][k]
      BY <3>1
    <3>2. CASE k = t.node /\ inbox'[c][k] = Append(inbox[c][k], t.msg)
      <4>1. PICK q : q = inbox[c][k]
        OBVIOUS
      <4>2. q \in Seq(Msg) /\ t.msg \in Msg /\ inbox'[c][k] = Append(q, t.msg)
        BY <3>2, <4>1, Shapes DEF Goroutine
      <4>3. (i \in DOMAIN q /\ Append(q, t.msg)[i] = q[i]) \/ Append(q, t.msg)[i] = t.msg
        BY <4>2
      <4> QED
        BY <3>2, <4>1, <4>2, <4>3
    <3>3. inbox'[c][k] = inbox[c][k] \/ (k = t.node /\ inbox'[c][k] = Append(inbox[c][k], t.msg))
      <4>1. inbox \in [Client -> [Node -> Seq(Msg)]]
        BY Shapes
      <4> QED
        BY <1>4, <1>5, <4>1
    <3> QED
      BY <3>1, <3>2, <3>3
  <2>4. \A d \in Client \ {c} : UNCHANGED <<tasks[d], serial[d], inbox[d]>>
    BY <1>2, <1>4, <2>1, Shapes
  <2>5. UNCHANGED <<pc, call, value, since, seen, sets>>
    BY <1>2, <1>4
  <2> QED
    BY <1>2, <2>2, <2>3, <2>4, <2>5, SameHistory
<1>3. CASE pc' = [pc EXCEPT ![c] = "panicked"] /\ tasks' = [tasks EXCEPT ![c] = {}] /\ inbox' = inbox
  <2>1. pc'[c] = "panicked" /\ tasks'[c] = {}
    BY <1>3, Shapes
  <2>2. \A d \in Client \ {c} :
          UNCHANGED <<tasks[d], serial[d], pc[d], call[d], inbox[d], since[d], seen[d]>>
    BY <1>1, <1>2, <1>3, Shapes
  <2> QED
    BY <1>2, <1>3, <2>1, <2>2, QuietHistory
<1> QED
  BY <1>1, <1>3, <1>4

\* A node that serves a load stores the slice of a version that counts.
LEMMA Served ==
  ASSUME AInv, NEW c \in Client, NEW k \in Node, Serve(c, k),
         NEW m, m = Head(inbox[c][k])
  PROVE  /\ m \in Msg /\ link[c][k] = "open" /\ inbox[c][k] # <<>>
         /\ inbox' = [inbox EXCEPT ![c][k] = Tail(inbox[c][k])]
         /\ outbox' = [outbox EXCEPT ![c][k] = outbox[c][k] \o Reply(Count(k, m))]
         /\ UNCHANGED <<link, late, pc, call, serial, todo, tasks, results, out, value, since, seen>>
         /\ m.op = "load" => m.words = NodeSlice(m.set, k) /\ Counted(m.name, m.set)
         /\ m.op # "load" => sets' = sets
         /\ m.op = "load" => sets'[k][m.name] = NodeSlice(m.set, k)
         /\ \A l \in Node, y \in Name :
              sets'[l][y] = sets[l][y] \/ (m.op = "load" /\ y = m.name /\ sets'[l][y] = NodeSlice(m.set, l))
<1>1. /\ link[c][k] = "open" /\ inbox[c][k] # <<>>
      /\ inbox' = [inbox EXCEPT ![c][k] = Tail(inbox[c][k])]
      /\ sets' = IF m.op = "load" THEN [sets EXCEPT ![k][m.name] = m.words] ELSE sets
      /\ outbox' = [outbox EXCEPT ![c][k] = outbox[c][k] \o Reply(Count(k, m))]
      /\ UNCHANGED <<link, late, pc, call, serial, todo, tasks, results, out, value, since, seen>>
  BY DEF Serve, Handle, callVars, historyVars
<1>2. m \in Msg /\ 1 \in DOMAIN inbox[c][k] /\ m = inbox[c][k][1]
  <2>1. inbox[c][k] \in Seq(Msg)
    BY Shapes
  <2> QED
    BY <1>1, <2>1
<1>3. m.op = "load" => m.words = NodeSlice(m.set, k) /\ Counted(m.name, m.set)
  BY <1>2 DEF AInv, History, Flying
<1>4. \A l \in Node, y \in Name :
        sets'[l][y] = IF m.op = "load" /\ l = k /\ y = m.name THEN m.words ELSE sets[l][y]
  BY <1>1, <1>2, Shapes DEF Msg
<1>5. \A l \in Node, y \in Name :
        sets'[l][y] = sets[l][y] \/ (m.op = "load" /\ y = m.name /\ sets'[l][y] = NodeSlice(m.set, l))
  BY <1>3, <1>4
<1>6. m.op = "load" => sets'[k][m.name] = NodeSlice(m.set, k)
  BY <1>2, <1>3, <1>4 DEF Msg
<1> QED
  BY <1>1, <1>2, <1>3, <1>5, <1>6

LEMMA ServeHistory ==
  ASSUME AInv, NEW c \in Client, NEW k \in Node, Serve(c, k)
  PROVE  History'
<1>1. PICK m : m = Head(inbox[c][k])
  OBVIOUS
<1>2. /\ inbox[c][k] # <<>> /\ inbox' = [inbox EXCEPT ![c][k] = Tail(inbox[c][k])]
      /\ UNCHANGED <<late, pc, call, serial, tasks, value, since, seen>>
      /\ m.op = "load" => Counted(m.name, m.set)
  BY <1>1, Served
<1>3. \A l \in Node, y \in Name :
        sets'[l][y] = sets[l][y] \/ (m.op = "load" /\ y = m.name /\ sets'[l][y] = NodeSlice(m.set, l))
  BY <1>1, Served
<1>4. \A l \in Node, y \in Name : OneOf(sets[l][y], value[y], l) => OneOf(sets'[l][y], value[y], l)
  BY <1>2, <1>3 DEF Counted, OneOf, Sliced
<1>5. \A t \in tasks'[c] : t.msg.op = "load" =>
         pc[c] = "loading" /\ t.serial = serial'[c] /\ t.msg = Request(c, t.node)
  BY <1>2 DEF AInv, History, Calls
<1>6. ASSUME NEW l \in Node, NEW i \in DOMAIN inbox'[c][l]
      PROVE  \E j \in DOMAIN inbox[c][l] : inbox'[c][l][i] = inbox[c][l][j]
  <2>1. CASE l # k
    <3>1. inbox'[c][l] = inbox[c][l]
      BY <1>2, <2>1, Shapes
    <3> QED
      BY <3>1
  <2>2. CASE l = k
    <3>1. PICK q : q = inbox[c][k]
      OBVIOUS
    <3>2. q \in Seq(Msg) /\ q # <<>> /\ inbox'[c][k] = Tail(q)
      BY <1>2, <3>1, Shapes
    <3>3. i + 1 \in DOMAIN q /\ Tail(q)[i] = q[i + 1]
      BY <2>2, <3>2
    <3> QED
      BY <2>2, <3>1, <3>2, <3>3
  <2> QED
    BY <2>1, <2>2
<1>8. Brought(c) /\ UNCHANGED <<pc, call, value, since, seen>>
  BY <1>2, SameBrought
<1>7. \A d \in Client \ {c} : UNCHANGED <<tasks[d], serial[d], inbox[d]>>
  BY <1>2, Shapes
<1> QED
  BY <1>2, <1>4, <1>5, <1>6, <1>8, <1>7, SameHistory, ZenonT(30)

\* Bytes are lost, nodes start or serve closed connections, or nothing happens.
LEMMA NodesHistory ==
  ASSUME AInv, UNCHANGED <<inbox, pc, call, serial, tasks, value, since, seen>>,
         \A k \in Node, y \in Name : OneOf(sets[k][y], value[y], k) => OneOf(sets'[k][y], value[y], k),
         \A k \in Node : \A old \in late'[k] : \A i \in DOMAIN old.queue :
            \E o \in late[k] : \E j \in DOMAIN o.queue : old.queue[i] = o.queue[j]
  PROVE  History'
<1>1. \A x, v : Counted(x, v) => Counted(x, v)'
  BY DEF Counted, Loading
<1>2. ASSUME NEW d \in Client PROVE Calls(d)' /\ Flying(d)'
  <2>1. Calls(d) /\ Flying(d)
    BY DEF AInv, History
  <2>2. pc[d] = "loading" => Counted(call[d].name, call[d].set)'
    <3>1. PICK x, v : x = call[d].name /\ v = call[d].set
      OBVIOUS
    <3>2. pc[d] = "loading" => Counted(x, v)'
      BY <1>1, <2>1, <3>1 DEF Calls
    <3> QED
      BY <3>1, <3>2
  <2>3. ASSUME NEW k \in Node, NEW i \in DOMAIN inbox[d][k], NEW m, m = inbox[d][k][i], m.op = "load"
        PROVE  Counted(m.name, m.set)'
    <3>1. Counted(m.name, m.set)
      BY <2>1, <2>3 DEF Flying
    <3> QED
      BY <1>1, <3>1
  <2>4. Flying(d)'
    BY <2>1, <2>3, FlyingKept
  <2>5. Calls(d)'
    BY <2>1, <2>2, CallsKept
  <2> QED
    BY <2>4, <2>5
<1>3. Stores'
  BY DEF AInv, History, Stores
<1>4. Stale'
  <2> SUFFICES ASSUME NEW k \in Node, NEW old \in late'[k], NEW i \in DOMAIN old.queue,
                      old.queue[i].op = "load"
               PROVE  /\ old.queue[i].words = NodeSlice(old.queue[i].set, k)
                      /\ Counted(old.queue[i].name, old.queue[i].set)'
    BY DEF Stale
  <2>1. PICK m : m = old.queue[i] /\ m.op = "load"
    OBVIOUS
  <2>2. PICK o \in late[k] : \E j \in DOMAIN o.queue : m = o.queue[j]
    BY <2>1
  <2>3. m.words = NodeSlice(m.set, k) /\ Counted(m.name, m.set)
    BY <2>1, <2>2 DEF AInv, History, Stale
  <2>4. Counted(m.name, m.set)'
    BY <1>1, <2>3
  <2> QED
    BY <2>1, <2>3, <2>4
<1> QED
  BY <1>2, <1>3, <1>4 DEF History

LEMMA StillHistory ==
  ASSUME AInv, UNCHANGED <<sets, late, inbox, pc, call, serial, tasks, value, since, seen>>
  PROVE  History'
<1>1. \A k \in Node, y \in Name : OneOf(sets[k][y], value[y], k) => OneOf(sets'[k][y], value[y], k)
  OBVIOUS
<1>2. \A k \in Node : \A old \in late'[k] : \A i \in DOMAIN old.queue :
        \E o \in late[k] : \E j \in DOMAIN o.queue : old.queue[i] = o.queue[j]
  OBVIOUS
<1> QED
  BY <1>1, <1>2, NodesHistory

\* A node that serves a closed connection stores the slice of a version that counts,
\* too.
LEMMA ServedLate ==
  ASSUME AInv, NEW k \in Node, ServeLate(k)
  PROVE  /\ UNCHANGED <<link, inbox, outbox, pc, call, serial, todo, tasks, results, out, value,
                        since, seen>>
         /\ \A l \in Node : \A old \in late'[l] : \A i \in DOMAIN old.queue :
              \E o \in late[l] : \E j \in DOMAIN o.queue : old.queue[i] = o.queue[j]
         /\ \A l \in Node, y \in Name :
              \/ sets'[l][y] = sets[l][y]
              \/ \E v : Counted(y, v) /\ sets'[l][y] = NodeSlice(v, l)
<1>1. UNCHANGED <<link, inbox, outbox, pc, call, serial, todo, tasks, results, out, value, since, seen>>
  BY DEF ServeLate, HandleLate, HangUp, callVars, historyVars
<1>2. PICK old \in late[k] : HandleLate(k, old) \/ HangUp(k, old)
  BY DEF ServeLate
<1>3. CASE HangUp(k, old)
  <2>1. sets' = sets /\ \A l \in Node : late'[l] \subseteq late[l]
    BY <1>3, Shapes DEF HangUp
  <2> QED
    BY <1>1, <2>1
<1>4. CASE HandleLate(k, old)
  <2>1. PICK m, q, rest : m = Head(old.queue) /\ q = old.queue /\ rest = [old EXCEPT !.queue = Tail(@)]
    OBVIOUS
  <2>2. /\ q # <<>> /\ late' = [late EXCEPT ![k] = (late[k] \ {old}) \cup {rest}]
        /\ sets' = IF m.op = "load" THEN [sets EXCEPT ![k][m.name] = m.words] ELSE sets
    BY <1>4, <2>1 DEF HandleLate
  <2>3. old \in Old /\ q \in Seq(Msg) /\ rest.queue = Tail(q)
    BY <2>1, Shapes DEF Old
  <2>4. m \in Msg /\ 1 \in DOMAIN q /\ m = q[1]
    BY <2>1, <2>2, <2>3
  <2>5. m.op = "load" => m.words = NodeSlice(m.set, k) /\ Counted(m.name, m.set)
    BY <2>1, <2>4 DEF AInv, History, Stale
  <2>6. ASSUME NEW l \in Node, NEW y \in Name
        PROVE  \/ sets'[l][y] = sets[l][y]
               \/ \E v : Counted(y, v) /\ sets'[l][y] = NodeSlice(v, l)
    <3>1. sets'[l][y] = IF m.op = "load" /\ l = k /\ y = m.name THEN m.words ELSE sets[l][y]
      BY <2>2, <2>4, Shapes DEF Msg
    <3> QED
      BY <2>5, <3>1
  <2>7. ASSUME NEW l \in Node, NEW e \in late'[l], NEW i \in DOMAIN e.queue
        PROVE  \E o \in late[l] : \E j \in DOMAIN o.queue : e.queue[i] = o.queue[j]
    <3>1. CASE e \in late[l]
      BY <3>1
    <3>2. CASE l = k /\ e = rest
      <4>1. i + 1 \in DOMAIN q /\ Tail(q)[i] = q[i + 1]
        BY <2>2, <2>3, <3>2
      <4> QED
        BY <2>1, <2>3, <3>2, <4>1
    <3>3. e \in late[l] \/ (l = k /\ e = rest)
      BY <2>2, Shapes
    <3> QED
      BY <3>1, <3>2, <3>3
  <2> QED
    BY <1>1, <2>6, <2>7
<1> QED
  BY <1>2, <1>3, <1>4

LEMMA ServeLateHistory ==
  ASSUME AInv, NEW k \in Node, ServeLate(k)
  PROVE  History'
<1>1. /\ UNCHANGED <<inbox, pc, call, serial, tasks, value, since, seen>>
      /\ \A l \in Node : \A old \in late'[l] : \A i \in DOMAIN old.queue :
           \E o \in late[l] : \E j \in DOMAIN o.queue : old.queue[i] = o.queue[j]
      /\ \A l \in Node, y \in Name :
           \/ sets'[l][y] = sets[l][y]
           \/ \E v : Counted(y, v) /\ sets'[l][y] = NodeSlice(v, l)
  BY ServedLate
<1>2. \A l \in Node, y \in Name : OneOf(sets[l][y], value[y], l) => OneOf(sets'[l][y], value[y], l)
  BY <1>1 DEF Counted, OneOf, Sliced
<1> QED
  BY <1>1, <1>2, NodesHistory

\* A load that begins takes in the versions that other loads, and messages that none
\* waits for any more, may still store; and histories in progress take in its own.
LEMMA BeginLoadHistory ==
  ASSUME AInv, NEW c \in Client, NEW r \in Call, BeginLoad(c, r)
  PROVE  History'
<1>1. /\ pc[c] = "idle" /\ r.op = "load"
      /\ pc' = [pc EXCEPT ![c] = "loading"] /\ call' = [call EXCEPT ![c] = r]
      /\ serial' = [serial EXCEPT ![c] = @ + 1]
      /\ value' = [value EXCEPT ![r.name] = @ \cup {r.set}]
      /\ since' = [d \in Client |->
           IF d = c THEN {r.set} \cup Underway(r.name) \cup
                         {call[e].set : e \in {e \in Client : Loading(e, r.name)}}
           ELSE IF Loading(d, r.name) THEN since[d] \cup {r.set} ELSE since[d]]
      /\ seen' = [d \in Client |->
           IF pc[d] = "gathering" /\ seen[d][r.name] # {}
           THEN [seen[d] EXCEPT ![r.name] = @ \cup {r.set}] ELSE seen[d]]
      /\ UNCHANGED <<inbox, late, sets, tasks>>
      /\ r.name \in Name
  BY ClientAssumption DEF BeginLoad, Begin, nodeVars
<1>2. /\ pc'[c] = "loading" /\ call'[c] = r
      /\ \A d \in Client \ {c} : pc'[d] = pc[d] /\ call'[d] = call[d] /\ serial'[d] = serial[d]
  BY <1>1, Shapes
<1>3. \A d \in Client \ {c} :
        since[d] \subseteq since'[d] /\ (Loading(d, r.name) => r.set \in since'[d])
  BY <1>1
<1>4. \A y \in Name : value[y] \subseteq value'[y] /\ (y # r.name => value'[y] = value[y])
                      /\ r.set \in value'[r.name]
  BY <1>1, Shapes
<1>5. ASSUME NEW d \in Client, pc'[d] = "gathering"
      PROVE  /\ pc[d] = "gathering"
             /\ \A y \in Name : seen[d][y] \subseteq seen'[d][y] /\ (seen'[d][y] # {} => seen[d][y] # {})
             /\ seen[d][r.name] # {} => r.set \in seen'[d][r.name]
  <2>1. pc[d] = "gathering"
    BY <1>2, <1>5
  <2>2. /\ seen[d] \in [Name -> SUBSET Global]
        /\ seen'[d] = IF pc[d] = "gathering" /\ seen[d][r.name] # {}
                      THEN [seen[d] EXCEPT ![r.name] = @ \cup {r.set}] ELSE seen[d]
    BY <1>1, Shapes
  <2> QED
    BY <1>1, <2>1, <2>2
<1>6. ASSUME NEW x \in Name, NEW v, Counted(x, v), x = r.name => v \in since'[c]
      PROVE  Counted(x, v)'
  <2>1. v \in value'[x]
    BY <1>4, <1>6 DEF Counted
  <2>2. ASSUME NEW d \in Client, Loading(d, x)'
        PROVE  v \in since'[d] \/ (Loading(d, x) /\ since[d] \subseteq since'[d])
    BY <1>2, <1>3, <1>6, <2>2 DEF Loading
  <2>3. ASSUME NEW d \in Client, pc'[d] = "gathering", seen'[d][x] # {}
        PROVE  pc[d] = "gathering" /\ seen[d][x] # {} /\ seen[d][x] \subseteq seen'[d][x]
    BY <1>5, <2>3
  <2> QED
    BY <1>6, <2>1, <2>2, <2>3, CountedKept
<1>7. Counted(r.name, r.set)'
  <2>1. ASSUME NEW d \in Client, Loading(d, r.name)' PROVE r.set \in since'[d]
    BY <1>1, <1>2, <1>3, <2>1 DEF Loading
  <2>2. ASSUME NEW d \in Client, pc'[d] = "gathering", seen'[d][r.name] # {}
        PROVE  r.set \in seen'[d][r.name]
    BY <1>1, <1>5, <2>2
  <2> QED
    BY <1>1, <1>4, <2>1, <2>2 DEF Counted
<1>8. ASSUME NEW d \in Client, NEW k \in Node, NEW i \in DOMAIN inbox[d][k],
             NEW m, m = inbox[d][k][i], m.op = "load"
      PROVE  Counted(m.name, m.set)'
  <2>1. m.name \in Name /\ Counted(m.name, m.set)
    BY <1>8, Named DEF AInv, History, Flying
  <2>2. ASSUME m.name = r.name PROVE m.set \in since'[c]
    <3>1. m.set \in Underway(r.name)
      BY <1>8, <2>1, <2>2 DEF Underway, Queues, Counted
    <3> QED
      BY <1>1, <3>1
  <2> QED
    BY <1>6, <2>1, <2>2
<1>9. ASSUME NEW d \in Client PROVE Calls(d)' /\ Flying(d)'
  <2>1. Calls(d) /\ Flying(d) /\ \A t \in tasks[c] : t.msg.op # "load"
    BY <1>1 DEF AInv, History, Calls
  <2>2. Flying(d)'
    BY <1>1, <1>8, <2>1, FlyingKept
  <2>3. CASE d = c
    BY <1>1, <1>2, <1>7, <2>1, <2>2, <2>3 DEF Calls
  <2>4. CASE d # c
    <3>1. pc[d] = "loading" => Counted(call[d].name, call[d].set)'
      <4> SUFFICES ASSUME pc[d] = "loading" PROVE Counted(call[d].name, call[d].set)'
        OBVIOUS
      <4>0. PICK x \in Name : x = call[d].name
        BY InCall DEF Busy
      <4>1. PICK v : x = call[d].name /\ v = call[d].set
        BY <4>0
      <4>2. Counted(x, v)
        BY <2>1, <4>1 DEF Calls
      <4>3. x = r.name => v \in since'[c]
        BY <1>1, <4>1 DEF Loading
      <4>4. Counted(x, v)'
        BY <1>6, <4>2, <4>3
      <4> QED
        BY <1>2, <2>4, <4>1, <4>4
    <3>2. Calls(d)'
      BY <1>1, <1>2, <2>1, <2>4, <3>1, CallsKept
    <3> QED
      BY <2>2, <3>2
  <2> QED
    BY <2>3, <2>4
<1>11. ASSUME NEW k \in Node, NEW old \in late[k], NEW i \in DOMAIN old.queue,
              NEW m, m = old.queue[i], m.op = "load"
       PROVE  Counted(m.name, m.set)'
  <2>1. m.name \in Name /\ Counted(m.name, m.set)
    BY <1>11, NamedLate DEF AInv, History, Stale
  <2>2. ASSUME m.name = r.name PROVE m.set \in since'[c]
    <3>1. old.queue \in Queues(k)
      BY DEF Queues
    <3>2. m.set \in Underway(r.name)
      BY <1>11, <2>1, <2>2, <3>1 DEF Underway, Counted
    <3> QED
      BY <1>1, <3>2
  <2> QED
    BY <1>6, <2>1, <2>2
<1>12. Stale'
  <2>1. Brought(c)
    BY <1>1, SameBrought
  <2> QED
    BY <1>8, <1>11, <2>1, StaleKept
<1>10. Stores'
  <2> SUFFICES ASSUME NEW k \in Node, NEW y \in Name PROVE OneOf(sets[k][y], value'[y], k)
    BY <1>1 DEF Stores
  <2> QED
    BY <1>4, Grows DEF AInv, History, Stores
<1> QED
  BY <1>9, <1>10, <1>12 DEF History

\* A node that dies stores the empty version of every name, which loads in progress
\* reckon with.
LEMMA DeathHistory ==
  ASSUME AInv, NEW k \in Node, NodeDies(k)
  PROVE  History'
<1>1. /\ sets' = [sets EXCEPT ![k] = [y \in Name |-> <<>>]]
      /\ inbox' = [c \in Client |-> [inbox[c] EXCEPT ![k] = <<>>]]
      /\ value' = [y \in Name |-> value[y] \cup {Empty}]
      /\ since' = [c \in Client |-> IF pc[c] = "loading" THEN since[c] \cup {Empty} ELSE {}]
      /\ late' = [late EXCEPT ![k] = {}]
      /\ UNCHANGED <<pc, call, serial, tasks, seen>>
  BY DEF NodeDies, Crash, callVars
<1>2. ASSUME NEW x \in Name, NEW v, Counted(x, v) PROVE Counted(x, v)'
  <2>1. v \in value'[x]
    BY <1>1, <1>2 DEF Counted
  <2>2. \A d \in Client : Loading(d, x)' => Loading(d, x) /\ since[d] \subseteq since'[d]
    BY <1>1 DEF Loading
  <2>3. \A d \in Client : pc'[d] = "gathering" /\ seen'[d][x] # {} =>
          pc[d] = "gathering" /\ seen[d][x] # {} /\ seen[d][x] \subseteq seen'[d][x]
    BY <1>1
  <2> QED
    BY <1>2, <2>1, <2>2, <2>3, CountedKept
<1>3. ASSUME NEW d \in Client PROVE Calls(d)' /\ Flying(d)'
  <2>1. Calls(d) /\ Flying(d)
    BY DEF AInv, History
  <2>2. pc[d] = "loading" => Counted(call[d].name, call[d].set)'
    <3> SUFFICES ASSUME pc[d] = "loading" PROVE Counted(call[d].name, call[d].set)'
      OBVIOUS
    <3>0. PICK x \in Name : x = call[d].name
      BY InCall DEF Busy
    <3>1. PICK v : x = call[d].name /\ v = call[d].set
      BY <3>0
    <3>2. Counted(x, v)'
      BY <1>2, <2>1, <3>1 DEF Calls
    <3> QED
      BY <1>1, <3>1, <3>2
  <2>3. ASSUME NEW l \in Node, NEW i \in DOMAIN inbox[d][l], NEW m, m = inbox[d][l][i], m.op = "load"
        PROVE  Counted(m.name, m.set)'
    <3>1. m.name \in Name /\ Counted(m.name, m.set)
      BY <2>1, <2>3, Named DEF Flying
    <3> QED
      BY <1>2, <3>1
  <2>4. ASSUME NEW l \in Node, NEW i \in DOMAIN inbox'[d][l]
        PROVE  \E j \in DOMAIN inbox[d][l] : inbox'[d][l][i] = inbox[d][l][j]
    <3>1. inbox'[d][l] = IF l = k THEN <<>> ELSE inbox[d][l]
      BY <1>1, Shapes
    <3>2. l # k
      BY <2>4, <3>1
    <3> QED
      BY <2>4, <3>1, <3>2
  <2>5. Flying(d)'
    BY <2>1, <2>3, <2>4, FlyingKept
  <2>6. Calls(d)'
    BY <1>1, <2>1, <2>2, CallsKept
  <2> QED
    BY <2>5, <2>6
<1>4. Stores'
  <2> SUFFICES ASSUME NEW l \in Node, NEW y \in Name PROVE OneOf(sets'[l][y], value'[y], l)
    BY DEF Stores
  <2>1. OneOf(sets[l][y], value[y], l)
    BY DEF AInv, History, Stores
  <2>2. sets'[l][y] = IF l = k THEN <<>> ELSE sets[l][y]
    BY <1>1, Shapes
  <2>3. value'[y] = value[y] \cup {Empty}
    BY <1>1
  <2> QED
    BY <2>1, <2>2, <2>3 DEF OneOf, Sliced
<1>5. ASSUME NEW c \in Client PROVE Stale'
  <2>1. Brought(c)
    BY <1>1, Shapes DEF Brought
  <2> QED
    BY <1>2, <2>1, MessagesCount, StaleKept
<1>6. CASE Client = {}
  <2>1. \A l \in Node : late'[l] \subseteq late[l] /\ late[l] \subseteq Old
    BY <1>1, Shapes
  <2>2. \A l \in Node : late'[l] = {}
    BY <1>6, <2>1 DEF Old
  <2> QED
    BY <1>3, <1>4, <2>2 DEF History, Stale
<1> QED
  BY <1>3, <1>4, <1>5, <1>6 DEF History

\* A round of a load that ends: its node has stored the slice, or has failed.
LEMMA Acked ==
  ASSUME AInv, NEW c \in Client, LoadAck(c), NEW r, r = Head(results[c])
  PROVE  /\ pc[c] = "loading" /\ r.node \in Node /\ 1 \in 1..Len(results[c]) /\ r = results[c][1]
         /\ Current(c) = {} /\ call[c].name \in Name /\ call[c].op = "load"
         /\ todo' = [todo EXCEPT ![c] = @ \ {r.node}]
         /\ results' = [results EXCEPT ![c] = <<>>]
         /\ UNCHANGED <<sets, link, inbox, outbox, late, call, serial, tasks, since, seen>>
         /\ \/ /\ ~r.ok /\ value' = value
               /\ pc' = [pc EXCEPT ![c] = "returned"] /\ out' = [out EXCEPT ![c] = [ok |-> FALSE, count |-> 0]]
            \/ /\ r.ok /\ todo[c] = {r.node} /\ pc' = [pc EXCEPT ![c] = "returned"]
               /\ out' = [out EXCEPT ![c] = [ok |-> TRUE, count |-> 0]]
               /\ value' = [value EXCEPT ![call[c].name] = since[c]]
            \/ r.ok /\ todo[c] # {r.node} /\ UNCHANGED <<pc, out, value>>
         /\ Clean(c) =>
              /\ tasks[c] = {} /\ outbox[c][r.node] = <<>>
              /\ IF r.ok THEN OneOf(sets[r.node][call[c].name], since[c], r.node)
                 ELSE link[c][r.node] = "broken"
         /\ \A k \in Node : DoomedBy(c, k) => k \in todo[c] /\ (r.node = k => ~r.ok)
<1>1. /\ pc[c] = "loading" /\ results[c] # <<>>
      /\ todo' = [todo EXCEPT ![c] = @ \ {r.node}]
      /\ results' = [results EXCEPT ![c] = <<>>]
      /\ UNCHANGED <<sets, link, inbox, outbox, late, call, serial, tasks, since, seen>>
      /\ \/ /\ ~r.ok /\ value' = value
            /\ pc' = [pc EXCEPT ![c] = "returned"] /\ out' = [out EXCEPT ![c] = [ok |-> FALSE, count |-> 0]]
         \/ /\ r.ok /\ todo[c] = {r.node} /\ pc' = [pc EXCEPT ![c] = "returned"]
            /\ out' = [out EXCEPT ![c] = [ok |-> TRUE, count |-> 0]]
            /\ value' = [value EXCEPT ![call[c].name] = since[c]]
         \/ r.ok /\ todo[c] # {r.node} /\ UNCHANGED <<pc, out, value>>
  BY DEF LoadAck, Return, nodeVars, callVars
<1>2. 1 \in 1..Len(results[c]) /\ r = results[c][1] /\ r \in Result
  <2>1. results[c] \in Seq(Result)
    BY Shapes
  <2> QED
    BY <1>1, <2>1
<1>3. /\ r.node \in Node /\ Current(c) = {} /\ call[c].name \in Name /\ call[c].op = "load"
  BY <1>1, <1>2, InCall DEF Result, AInv, RInv, Readers, Busy
<1>4. ASSUME Clean(c)
      PROVE  /\ tasks[c] = {} /\ outbox[c][r.node] = <<>>
             /\ IF r.ok THEN OneOf(sets[r.node][call[c].name], since[c], r.node)
                ELSE link[c][r.node] = "broken"
  <2>1. Talks(c) /\ tasks[c] = {}
    BY <1>3, <1>4 DEF Clean, Talks, Current
  <2>2. IF r.ok THEN IsAnswer(c, r.node, r.count) ELSE link[c][r.node] = "broken"
    BY <1>1, <1>2, <2>1 DEF Talks, Busy
  <2>3. outbox[c][r.node] = <<>>
    BY <1>3, <2>1 DEF Talks
  <2> QED
    BY <1>3, <2>1, <2>2, <2>3 DEF IsAnswer
<1>5. ASSUME NEW k \in Node, DoomedBy(c, k) PROVE k \in todo[c] /\ (r.node = k => ~r.ok)
  BY <1>1, <1>2, <1>5 DEF DoomedBy, Busy
<1> QED
  BY <1>1, <1>2, <1>3, <1>4, <1>5

\* The last acknowledgement of a load settles what its name may be: every node's
\* slice is of the version loaded, or of one that came up meanwhile.
LEMMA LoadAckHistory ==
  ASSUME AInv, NEW c \in Client, LoadAck(c)
  PROVE  History'
<1>1. PICK r : r = Head(results[c])
  OBVIOUS
<1>2. /\ pc[c] = "loading" /\ r.node \in Node /\ Current(c) = {} /\ call[c].name \in Name
      /\ UNCHANGED <<sets, inbox, late, call, serial, tasks, since, seen>>
      /\ \/ value' = value /\ pc' = [pc EXCEPT ![c] = "returned"]
         \/ /\ r.ok /\ todo[c] = {r.node} /\ pc' = [pc EXCEPT ![c] = "returned"]
            /\ value' = [value EXCEPT ![call[c].name] = since[c]]
         \/ UNCHANGED <<pc, value>>
  BY <1>1, Acked
<1>3. \A t \in tasks'[c] : t.msg.op # "load"
  BY <1>2 DEF AInv, History, Calls, Current
<1>4. \A d \in Client \ {c} :
        UNCHANGED <<tasks[d], serial[d], call[d], inbox[d], since[d], seen[d]>>
  BY <1>2
<1>5. CASE value' = value /\ pc' = [pc EXCEPT ![c] = "returned"]
  BY <1>2, <1>3, <1>4, <1>5, Shapes, SameBrought, QuietHistory
<1>6. CASE UNCHANGED <<pc, value>>
  BY <1>2, <1>6, StillHistory
<1>7. CASE /\ r.ok /\ todo[c] = {r.node} /\ pc' = [pc EXCEPT ![c] = "returned"]
           /\ value' = [value EXCEPT ![call[c].name] = since[c]]
  <2>1. /\ value'[call[c].name] = since[c]
        /\ \A y \in Name : y # call[c].name => value'[y] = value[y]
    BY <1>2, <1>7, Shapes
  <2>2. \A x \in Name : \A v : Counted(x, v) => v \in value'[x]
    BY <1>2, <2>1 DEF Counted, Loading
  <2>3. \A k \in Node : OneOf(sets[k][call[c].name], since[c], k)
    <3>1. ~Doomed(c)
      <4>1. ASSUME NEW k \in Node, DoomedBy(c, k) PROVE FALSE
        <5>1. k \in todo[c] /\ (r.node = k => ~r.ok)
          BY <1>1, <4>1, Acked
        <5> QED
          BY <1>7, <5>1
      <4> QED
        BY <4>1 DEF Doomed
    <3>2. Clean(c)
      BY <3>1 DEF AInv
    <3>3. OneOf(sets[r.node][call[c].name], since[c], r.node)
      BY <1>1, <1>7, <3>2, Acked
    <3>4. \A k \in Node \ todo[c] : OneOf(sets[k][call[c].name], since[c], k)
      BY <1>2, <3>2 DEF Clean, Loads
    <3> QED
      BY <1>7, <3>3, <3>4
  <2>4. \A k \in Node, y \in Name : OneOf(sets[k][y], value[y], k) => OneOf(sets'[k][y], value'[y], k)
    BY <1>2, <2>1, <2>3
  <2>5. pc'[c] = "returned" /\ \A d \in Client \ {c} : pc'[d] = pc[d]
    BY <1>7, Shapes
  <2> QED
    BY <1>2, <1>3, <1>4, <2>2, <2>4, <2>5, SameBrought, OverHistory
<1> QED
  BY <1>2, <1>5, <1>6, <1>7

LEMMA StepHistory == AInv /\ [Next]_vars => History'
<1> SUFFICES ASSUME AInv, [Next]_vars PROVE History'
  OBVIOUS
<1>1. ASSUME NEW c \in Client, Step(c) PROVE History'
  BY <1>1, LoadNextHistory, LoadAckHistory, IdleHistory, RunHistory DEF Step
<1>2. ASSUME NEW c \in Client, NEW r \in Call, BeginLoad(c, r) \/ Gather(c, r) PROVE History'
  BY <1>2, BeginLoadHistory, GatherHistory
<1>3. CASE Network
  BY <1>3, StillHistory DEF Network, Lose, Restart, callVars, historyVars
<1>4. CASE UNCHANGED vars
  BY <1>4, StillHistory DEF vars, nodeVars, callVars, historyVars
<1> QED
  BY <1>1, <1>2, <1>3, <1>4, IdleHistory, ServeHistory, ServeLateHistory, DeathHistory DEF Next

-----------------------------------------------------------------------------
(* The clients *)

\* An answer stays one while versions are only added to those that count.
LEMMA AnswerKept ==
  ASSUME NEW c \in Client, NEW k, NEW m, IsAnswer(c, k, m), call'[c] = call[c],
         call[c].name \in Name, call[c].with \in Name,
         call[c].op = "load" /\ OneOf(sets[k][call[c].name], since[c], k) =>
           OneOf(sets'[k][call[c].name], since'[c], k),
         call[c].op # "load" => \A y \in Name : seen[c][y] \subseteq seen'[c][y]
  PROVE  IsAnswer(c, k, m)'
<1>1. CASE call[c].op = "load"
  BY <1>1 DEF IsAnswer
<1>2. CASE call[c].op # "load"
  <2>1. PICK f \in seen[c][call[c].name], g \in Against(call[c], seen[c]) :
                        m = Cardinality(Shared(f, g, k))
    BY <1>2 DEF IsAnswer
  <2>2. f \in seen'[c][call[c].name] /\ g \in Against(call[c], seen'[c])
    BY <1>2 DEF Against
  <2> QED
    BY <1>2, <2>1, <2>2 DEF IsAnswer
<1> QED
  BY <1>1, <1>2

\* The nodes of results.
LEMMA Resulting ==
  ASSUME AInv, NEW d \in Client, NEW q \in 1..Len(results[d])
  PROVE  results[d][q].node \in Node
<1>1. results[d] \in Seq(Result)
  BY Shapes
<1>2. results[d][q] \in Result
  BY <1>1, ElementOfSeq
<1> QED
  BY <1>2 DEF Result

\* What another's step may do to client d: add versions, store slices of versions
\* that count, break a connection that then has no request.
LEMMA CleanKept ==
  ASSUME AInv, NEW d \in Client, Clean(d),
         UNCHANGED <<tasks[d], serial[d], outbox[d], results[d], call[d], pc[d], out[d], todo[d]>>,
         \A k \in Node :
           \/ inbox'[d][k] = inbox[d][k] /\ link'[d][k] = link[d][k]
           \/ /\ inbox'[d][k] = <<>> /\ link'[d][k] # "open"
              /\ link[d][k] = "broken" => link'[d][k] = "broken",
         pc[d] = "loading" =>
           /\ since[d] \subseteq since'[d]
           /\ \A k \in Node : OneOf(sets[k][call[d].name], since[d], k) =>
                                OneOf(sets'[k][call[d].name], since'[d], k),
         pc[d] = "gathering" =>
           /\ \A y \in Name : seen[d][y] \subseteq seen'[d][y]
           /\ \A k \in Node, y \in Operands(call[d]) :
                link[d][k] = "open" /\ link'[d][k] = "open" /\ OneOf(sets[k][y], seen[d][y], k)
                  => OneOf(sets'[k][y], seen'[d][y], k),
         pc[d] = "returned" => seen'[d] = seen[d]
  PROVE  Clean(d)'
<1>1. Talks(d) /\ Loads(d) /\ Gathers(d) /\ Exact(d) /\ (tasks[d] # {} => Busy(d))
  BY DEF Clean
<1>2. ASSUME NEW k \in Node, NEW m, IsAnswer(d, k, m), Busy(d)
      PROVE  IsAnswer(d, k, m)'
  <2>1. /\ call[d].name \in Name /\ call[d].with \in Name
        /\ call[d].op = "load" <=> pc[d] = "loading"
        /\ pc[d] \in {"loading", "gathering"}
    BY <1>2, InCall DEF Busy
  <2> QED
    BY <1>2, <2>1, AnswerKept
<1>3. ASSUME NEW t \in tasks[d] PROVE Exchange(d, t)'
  <2>1. Exchange(d, t) /\ t.node \in Node /\ Busy(d)
    BY <1>1, Shapes DEF Talks, Goroutine
  <2> DEFINE k == t.node
             o == t.got \o outbox[d][k]
  <2>2. \A from : Answering(d, k, o, from) => Answering(d, k, o, from)'
    BY <1>2, <2>1 DEF Answering
  <2>3. t.msg = Request(d, k)'
    BY <2>1 DEF Exchange, Request
  <2>4. inbox'[d][k] # <<>> => inbox'[d][k] = inbox[d][k] /\ link'[d][k] = link[d][k]
    BY <2>1
  <2>5. outbox'[d][k] = outbox[d][k] /\ (t.got \o outbox[d][k])' = o
    OBVIOUS
  <2> QED
    BY <2>1, <2>2, <2>3, <2>4, <2>5 DEF Exchange
<1>4. Talks(d)'
  <2>1. ASSUME NEW k \in Node, \A t \in tasks[d] : t.node # k
        PROVE  inbox'[d][k] = <<>> /\ outbox'[d][k] = <<>>
    BY <1>1, <2>1 DEF Talks
  <2>2. ASSUME NEW q \in 1..Len(results[d]), Busy(d)
        PROVE  IF results[d][q].ok THEN IsAnswer(d, results[d][q].node, results[d][q].count)'
               ELSE link'[d][results[d][q].node] = "broken"
    <3>0. PICK k \in Node : k = results[d][q].node
      BY Resulting
    <3>1. PICK m : k = results[d][q].node /\ m = results[d][q].count
      BY <3>0
    <3>2. IF results[d][q].ok THEN IsAnswer(d, k, m) ELSE link[d][k] = "broken"
      BY <1>1, <2>2, <3>1 DEF Talks
    <3>3. IsAnswer(d, k, m) => IsAnswer(d, k, m)'
      BY <1>2, <2>2
    <3>4. link[d][k] = "broken" => link'[d][k] = "broken"
      OBVIOUS
    <3> QED
      BY <3>1, <3>2, <3>3, <3>4
  <2>3. \A q \in 1..Len(results[d]) : \A t \in tasks[d] : t.node # results[d][q].node
    BY <1>1 DEF Talks
  <2>4. \A t \in tasks[d] : t.serial = serial[d]
    BY <1>1 DEF Talks
  <2> QED
    BY <1>3, <2>1, <2>2, <2>3, <2>4 DEF Talks, Busy
<1>5. Loads(d)'
  BY <1>1 DEF Loads
<1>6. Gathers(d)'
  <2> SUFFICES ASSUME pc[d] = "gathering" PROVE Gathers(d)'
    BY DEF Gathers
  <2>1. Gathers(d) /\ pc'[d] = "gathering" /\ Operands(call[d]) \subseteq Name
    BY <1>1, InCall DEF Busy
  <2>2. \A y \in Operands(call[d]) : seen'[d][y] # {}
    <3>1. \A y \in Operands(call[d]) : seen[d][y] # {} /\ seen[d][y] \subseteq seen'[d][y]
      BY <2>1 DEF Gathers
    <3> QED
      BY <3>1
  <2>3. \A k \in Node, y \in Operands(call[d]) :
          link'[d][k] = "open" => OneOf(sets'[k][y], seen'[d][y], k)
    <3>1. ASSUME NEW k \in Node, link'[d][k] = "open" PROVE link[d][k] = "open"
      BY <3>1
    <3> QED
      BY <2>1, <3>1 DEF Gathers
  <2>4. /\ \A k \in Node : \/ \E t \in tasks[d] : t.node = k
                           \/ \E q \in 1..Len(results[d]) : results[d][q].node = k
        /\ \A p, q \in 1..Len(results[d]) : results[d][p].node = results[d][q].node => p = q
    BY <2>1 DEF Gathers
  <2> QED
    BY <2>1, <2>2, <2>3, <2>4 DEF Gathers
<1>7. Exact(d)'
  BY <1>1 DEF Exact
<1> QED
  BY <1>1, <1>4, <1>5, <1>6, <1>7 DEF Clean, Busy

\* Nobody else mends a connection, or changes what its client waits for.
LEMMA DoomedKept ==
  ASSUME NEW d \in Client, Doomed(d),
         UNCHANGED <<tasks[d], serial[d], outbox[d], results[d], pc[d], out[d], todo[d]>>,
         \A k \in Node : link[d][k] = "broken" => link'[d][k] = "broken"
  PROVE  Doomed(d)'
<1>1. PICK k \in Node : DoomedBy(d, k)
  BY DEF Doomed
<1>2. DoomedBy(d, k)'
  BY <1>1 DEF DoomedBy, Busy, Current
<1> QED
  BY <1>2 DEF Doomed

\* A step of client c that stores nothing leaves the other clients as they are.
LEMMA OthersKept ==
  ASSUME AInv, RInv', Views', History', NEW c \in Client, Clean(c)' \/ Doomed(c)',
         \A d \in Client \ {c} :
           UNCHANGED <<tasks[d], serial[d], inbox[d], outbox[d], link[d], results[d], call[d],
                       pc[d], out[d], todo[d], since[d], seen[d]>>,
         UNCHANGED sets
  PROVE  AInv'
<1>1. ASSUME NEW d \in Client, d # c PROVE Clean(d)' \/ Doomed(d)'
  <2>1. UNCHANGED <<tasks[d], serial[d], inbox[d], outbox[d], link[d], results[d], call[d],
                    pc[d], out[d], todo[d], since[d], seen[d]>>
    BY <1>1
  <2>2. CASE Clean(d)
    BY <2>1, <2>2, CleanKept
  <2>3. CASE Doomed(d)
    BY <2>1, <2>3, DoomedKept
  <2> QED
    BY <2>2, <2>3 DEF AInv
<1> QED
  BY <1>1 DEF AInv

\* A client without goroutines has silent connections, and between its calls that is
\* all that is asked of it.
LEMMA Silent ==
  ASSUME NEW c \in Client, Clean(c), tasks[c] = {}
  PROVE  \A k \in Node : inbox[c][k] = <<>> /\ outbox[c][k] = <<>>
BY DEF Clean, Talks

LEMMA QuietClean ==
  ASSUME NEW c \in Client, tasks'[c] = {}, pc'[c] \in {"idle", "new", "returned"},
         \A k \in Node : inbox'[c][k] = <<>> /\ outbox'[c][k] = <<>>, Exact(c)'
  PROVE  Clean(c)'
<1>1. Talks(c)'
  BY DEF Talks, Busy
<1> QED
  BY <1>1 DEF Clean, Loads, Gathers

LEMMA DialAnswers ==
  ASSUME AInv, RInv', Views', History', NEW c \in Client, Dial(c)
  PROVE  AInv'
<1>1. /\ tasks' = [tasks EXCEPT ![c] = {}] /\ pc' = [pc EXCEPT ![c] = "idle"]
      /\ link' = [link EXCEPT ![c] = [n \in Node |-> "open"]]
      /\ inbox' = [inbox EXCEPT ![c] = [n \in Node |-> <<>>]]
      /\ outbox' = [outbox EXCEPT ![c] = [n \in Node |-> <<>>]]
      /\ UNCHANGED <<sets, call, serial, todo, results, out, value, since, seen>>
  BY DEF Dial, callVars, historyVars
<1>2. pc'[c] = "idle" /\ tasks'[c] = {} /\ \A k \in Node : inbox'[c][k] = <<>> /\ outbox'[c][k] = <<>>
  BY <1>1, Shapes
<1>3. Clean(c)'
  BY <1>2, QuietClean DEF Exact
<1>4. \A d \in Client \ {c} :
        UNCHANGED <<tasks[d], serial[d], inbox[d], outbox[d], link[d], results[d], call[d],
                    pc[d], out[d], todo[d], since[d], seen[d]>>
  BY <1>1, Shapes
<1> QED
  BY <1>1, <1>3, <1>4, OthersKept

LEMMA TakenAnswers ==
  ASSUME AInv, RInv', Views', History', NEW c \in Client, Taken(c)
  PROVE  AInv'
<1>1. /\ pc[c] = "returned" /\ tasks' = tasks /\ pc' = [pc EXCEPT ![c] = "idle"]
      /\ call' = [call EXCEPT ![c] = NoCall] /\ todo' = [todo EXCEPT ![c] = {}]
      /\ results' = [results EXCEPT ![c] = <<>>] /\ out' = [out EXCEPT ![c] = NoCall]
      /\ seen' = [seen EXCEPT ![c] = Nothing] /\ since' = [since EXCEPT ![c] = {}]
      /\ UNCHANGED <<sets, serial, value, inbox, outbox, link>>
  BY DEF Taken, nodeVars
<1>2. pc'[c] = "idle"
  BY <1>1, Shapes
<1>3. Clean(c) => Clean(c)'
  <2> SUFFICES ASSUME Clean(c) PROVE Clean(c)'
    OBVIOUS
  <2>1. tasks[c] = {}
    BY <1>1 DEF Clean, Busy
  <2> QED
    BY <1>1, <1>2, <2>1, Silent, QuietClean DEF Exact
<1>4. Doomed(c) => Doomed(c)'
  BY <1>1, <1>2 DEF Doomed, DoomedBy, Busy
<1>5. \A d \in Client \ {c} :
        UNCHANGED <<tasks[d], serial[d], inbox[d], outbox[d], link[d], results[d], call[d],
                    pc[d], out[d], todo[d], since[d], seen[d]>>
  BY <1>1, Shapes
<1> QED
  BY <1>1, <1>3, <1>4, <1>5, OthersKept DEF AInv

LEMMA GatherAnswers ==
  ASSUME AInv, RInv', Views', History', NEW c \in Client, NEW r \in Call, Gather(c, r)
  PROVE  AInv'
<1> DEFINE msg(k) == Message(r, IF r.op = "query" THEN NodeSlice(r.set, k) ELSE <<>>)
<1>1. /\ pc[c] = "idle" /\ r.op \in {"stored", "query"}
      /\ pc' = [pc EXCEPT ![c] = "gathering"] /\ call' = [call EXCEPT ![c] = r]
      /\ serial' = [serial EXCEPT ![c] = @ + 1]
      /\ results' = [results EXCEPT ![c] = <<>>]
      /\ seen' = [seen EXCEPT ![c] =
                IF \E n \in Node : link[c][n] = "broken" THEN Nothing
                ELSE [x \in Name |-> IF x \in Operands(r) THEN value[x] ELSE {}]]
      /\ UNCHANGED <<inbox, outbox, link, sets, out, todo, value, since>>
  BY DEF Gather, BeginGather, Begin, nodeVars
<1>2. /\ Current(c)' = {Task(c, k, msg(k)) : k \in Node}
      /\ tasks'[c] = tasks[c] \cup Current(c)' /\ tasks' = [tasks EXCEPT ![c] = tasks'[c]]
      /\ \A t \in Current(c)' : t.at = "write" /\ t.node \in Node
      /\ \A k \in Node : \E t \in Current(c)' : t.node = k
  BY GatherStarts DEF AInv
<1>3. /\ pc'[c] = "gathering" /\ call'[c] = r /\ results'[c] = <<>> /\ 1..Len(results'[c]) = {}
      /\ \A d \in Client \ {c} :
           UNCHANGED <<tasks[d], serial[d], inbox[d], outbox[d], link[d], results[d], call[d],
                       pc[d], out[d], todo[d], since[d], seen[d]>>
  BY <1>1, <1>2, Shapes, SMTT(30)
<1>4. \A t \in Current(c)' : t.msg = msg(t.node) /\ t.serial = serial'[c]
  <2>1. \A k \in Node : Task(c, k, msg(k)).node = k /\ Task(c, k, msg(k)).msg = msg(k)
    <3> HIDE DEF msg
    <3> QED
      BY DEF Task
  <2> HIDE DEF msg
  <2>2. \A t \in Current(c)' : t.serial = serial'[c]
    BY DEF Current
  <2> QED
    BY <1>2, <2>1, <2>2
<1>5. ASSUME Clean(c), \A k \in Node : link[c][k] # "broken" PROVE Clean(c)'
  <2>1. tasks[c] = {} /\ tasks'[c] = Current(c)'
    BY <1>1, <1>2, <1>5 DEF Clean, Busy
  <2>2. \A k \in Node : inbox'[c][k] = <<>> /\ outbox'[c][k] = <<>>
    BY <1>1, <1>5, <2>1, Silent
  <2>3. \A y \in Operands(r) : seen'[c][y] = value[y] /\ seen'[c][y] # {}
    <3>1. seen'[c] = [x \in Name |-> IF x \in Operands(r) THEN value[x] ELSE {}]
      BY <1>1, <1>5, Shapes
    <3>2. Operands(r) \subseteq Name
      BY ClientAssumption DEF Operands
    <3> QED
      BY <3>1, <3>2, Shapes
  <2>4. ASSUME NEW t \in tasks'[c] PROVE t.serial = serial'[c] /\ Exchange(c, t)'
    <3>1. t.msg = msg(t.node) /\ t.at = "write" /\ t.node \in Node /\ t.serial = serial'[c]
      BY <1>2, <1>4, <2>1
    <3>2. t.msg = Request(c, t.node)'
      BY <1>1, <1>3, <3>1 DEF Request
    <3> QED
      BY <2>2, <3>1, <3>2 DEF Exchange
  <2>5. Talks(c)'
    BY <1>3, <2>2, <2>4 DEF Talks
  <2>6. \A k \in Node, y \in Operands(r) : OneOf(sets'[k][y], seen'[c][y], k)
    <3>1. Operands(r) \subseteq Name
      BY ClientAssumption DEF Operands
    <3> QED
      BY <1>1, <2>3, <3>1 DEF AInv, History, Stores
  <2>7. Gathers(c)'
    BY <1>2, <1>3, <2>1, <2>3, <2>6 DEF Gathers
  <2> QED
    BY <1>3, <2>5, <2>7 DEF Clean, Busy, Loads, Exact
<1>6. ASSUME NEW k \in Node, link[c][k] = "broken", outbox[c][k] = <<>> PROVE DoomedBy(c, k)'
  <2>1. /\ \A t \in Current(c)' : t.at = "write"
        /\ \E t \in Current(c)' : t.node = k
    BY <1>2
  <2> QED
    BY <1>1, <1>3, <1>6, <2>1 DEF DoomedBy, Busy
<1>7. Clean(c)' \/ Doomed(c)'
  <2>1. CASE Clean(c)
    <3>1. tasks[c] = {}
      BY <1>1, <2>1 DEF Clean, Busy
    <3> QED
      BY <1>5, <1>6, <2>1, <3>1, Silent DEF Doomed
  <2>2. CASE Doomed(c)
    BY <1>6, <2>2 DEF Doomed, DoomedBy
  <2> QED
    BY <2>1, <2>2 DEF AInv
<1> QED
  BY <1>1, <1>3, <1>7, OthersKept

LEMMA LoadNextAnswers ==
  ASSUME AInv, RInv', Views', History', NEW c \in Client, NEW k \in todo[c],
         LoadNext(c, k, NodeSlice(call[c].set, k))
  PROVE  AInv'
<1>1. PICK t : t = Task(c, k, Message(call[c], NodeSlice(call[c].set, k)))
  OBVIOUS
<1>2. /\ pc[c] = "loading" /\ results[c] = <<>> /\ Current(c) = {} /\ Current(c)' = {t}
      /\ tasks'[c] = tasks[c] \cup {t} /\ tasks' = [tasks EXCEPT ![c] = tasks'[c]]
      /\ t.node = k /\ t.at = "write" /\ t.serial = serial[c]
      /\ t.msg = Message(call[c], NodeSlice(call[c].set, k))
      /\ UNCHANGED <<inbox, outbox, link, sets, pc, call, serial, todo, results, out, value, since, seen>>
  BY <1>1, LoadStarts DEF AInv, nodeVars, historyVars
<1>3. k \in Node /\ call[c].op = "load" /\ 1..Len(results'[c]) = {}
  BY <1>2, Shapes DEF AInv, History, Calls
<1>4. ASSUME Clean(c) PROVE Clean(c)'
  <2>1. tasks[c] = {} /\ tasks'[c] = {t}
    BY <1>2, <1>4 DEF Clean, Talks, Current
  <2>2. \A l \in Node : inbox[c][l] = <<>> /\ outbox[c][l] = <<>>
    BY <1>4, <2>1, Silent
  <2>3. t.msg = Request(c, k)'
    BY <1>2, <1>3 DEF Request
  <2>4. Exchange(c, t)'
    BY <1>2, <1>3, <2>2, <2>3 DEF Exchange
  <2>5. Talks(c)'
    BY <1>2, <1>3, <2>1, <2>2, <2>4 DEF Talks
  <2>6. Loads(c)'
    BY <1>2, <1>4 DEF Clean, Loads
  <2> QED
    BY <1>2, <2>5, <2>6 DEF Clean, Busy, Gathers, Exact
<1>5. ASSUME Doomed(c) PROVE Doomed(c)'
  <2>1. PICK l \in Node : DoomedBy(c, l)
    BY <1>5 DEF Doomed
  <2>2. DoomedBy(c, l)'
    BY <1>2, <1>3, <2>1 DEF DoomedBy, Busy
  <2> QED
    BY <2>2 DEF Doomed
<1>6. \A d \in Client \ {c} :
        UNCHANGED <<tasks[d], serial[d], inbox[d], outbox[d], link[d], results[d], call[d],
                    pc[d], out[d], todo[d], since[d], seen[d]>>
  BY <1>2, Shapes
<1> QED
  BY <1>2, <1>4, <1>5, <1>6, OthersKept DEF AInv

LEMMA LoadAckAnswers ==
  ASSUME AInv, RInv', Views', History', NEW c \in Client, LoadAck(c)
  PROVE  AInv'
<1>1. PICK r : r = Head(results[c])
  OBVIOUS
<1>2. /\ pc[c] = "loading" /\ r.node \in Node /\ Current(c) = {} /\ call[c].op = "load"
      /\ todo' = [todo EXCEPT ![c] = @ \ {r.node}]
      /\ results' = [results EXCEPT ![c] = <<>>]
      /\ UNCHANGED <<sets, link, inbox, outbox, call, serial, tasks, since, seen>>
      /\ \/ /\ ~r.ok
            /\ pc' = [pc EXCEPT ![c] = "returned"] /\ out' = [out EXCEPT ![c] = [ok |-> FALSE, count |-> 0]]
         \/ /\ r.ok /\ todo[c] = {r.node} /\ pc' = [pc EXCEPT ![c] = "returned"]
            /\ out' = [out EXCEPT ![c] = [ok |-> TRUE, count |-> 0]]
         \/ r.ok /\ todo[c] # {r.node} /\ UNCHANGED <<pc, out>>
  BY <1>1, Acked
<1>3. /\ call'[c] = call[c] /\ results'[c] = <<>> /\ 1..Len(results'[c]) = {}
      /\ todo'[c] = todo[c] \ {r.node}
      /\ \/ pc'[c] = "returned" /\ (out'[c].ok => r.ok) /\ (r.ok => todo[c] = {r.node})
         \/ r.ok /\ pc'[c] = "loading"
      /\ \A d \in Client \ {c} :
           UNCHANGED <<tasks[d], serial[d], inbox[d], outbox[d], link[d], results[d], call[d],
                       pc[d], out[d], todo[d], since[d], seen[d]>>
  <2>1. /\ \/ pc'[c] = "returned" /\ (out'[c].ok => r.ok) /\ (r.ok => todo[c] = {r.node})
           \/ r.ok /\ pc'[c] = "loading"
        /\ \A d \in Client \ {c} : pc'[d] = pc[d] /\ out'[d] = out[d]
    BY <1>2, Shapes
  <2> QED
    BY <1>2, <2>1, Shapes
<1>4. ASSUME Clean(c), r.ok PROVE Clean(c)'
  <2>1. tasks[c] = {} /\ OneOf(sets[r.node][call[c].name], since[c], r.node)
    BY <1>1, <1>4, Acked
  <2>2. \A k \in Node : inbox[c][k] = <<>> /\ outbox[c][k] = <<>>
    BY <1>4, <2>1, Silent
  <2>3. Talks(c)'
    BY <1>2, <1>3, <2>1, <2>2 DEF Talks
  <2>4. Loads(c)'
    BY <1>2, <1>3, <1>4, <2>1 DEF Clean, Loads
  <2> QED
    BY <1>2, <1>3, <2>1, <2>3, <2>4 DEF Clean, Busy, Gathers, Exact
<1>5. ASSUME Clean(c), ~r.ok PROVE Doomed(c)'
  <2>1. outbox[c][r.node] = <<>> /\ link[c][r.node] = "broken"
    BY <1>1, <1>5, Acked
  <2>2. pc'[c] = "returned" /\ ~out'[c].ok
    BY <1>3, <1>5
  <2>3. DoomedBy(c, r.node)'
    BY <1>2, <2>1, <2>2 DEF DoomedBy, Busy
  <2> QED
    BY <1>2, <2>3 DEF Doomed
<1>6. ASSUME Doomed(c) PROVE Doomed(c)'
  <2>1. PICK k \in Node : DoomedBy(c, k)
    BY <1>6 DEF Doomed
  <2>2. k \in todo[c] /\ (r.node = k => ~r.ok)
    BY <1>1, <2>1, Acked
  <2>3. Current(c)' = {}
    BY <1>2 DEF Current
  <2>4. DoomedBy(c, k)'
    BY <1>2, <1>3, <2>1, <2>2, <2>3 DEF DoomedBy, Busy
  <2> QED
    BY <2>4 DEF Doomed
<1>7. Clean(c)' \/ Doomed(c)'
  BY <1>4, <1>5, <1>6 DEF AInv
<1> QED
  BY <1>2, <1>3, <1>7, OthersKept

\* One answer of every node is a count of versions that the query may see.
LEMMA AllAnswered ==
  ASSUME AInv, NEW c \in Client, Clean(c), pc[c] = "gathering", tasks[c] = {},
         ~Failed(results[c])
  PROVE  Total(results[c]) \in Counts(call[c], Home, seen[c])
<1> DEFINE rs == results[c]
           r == call[c]
           F == seen[c][r.name]
           G == Against(r, seen[c])
<1>1. /\ Gathers(c) /\ Talks(c) /\ rs \in Seq(Result) /\ DOMAIN rs = 1..Len(rs)
      /\ r.op \in {"stored", "query"} /\ Busy(c)
  <2>1. /\ Gathers(c) /\ Talks(c) /\ rs \in Seq(Result) /\ r.op \in {"stored", "query"}
        /\ Busy(c)
    BY Shapes DEF AInv, History, Calls, Clean, Busy
  <2>2. DOMAIN rs = 1..Len(rs)
    BY <2>1, LenProperties
  <2> QED
    BY <2>1, <2>2
<1>2. /\ \A k \in Node : \E q \in 1..Len(rs) : rs[q].node = k
      /\ \A p, q \in 1..Len(rs) : rs[p].node = rs[q].node => p = q
  BY <1>1 DEF Gathers
<1>3. \A q \in 1..Len(rs) : rs[q].ok
  BY <1>1 DEF Failed
<1>4. \A q \in 1..Len(rs) : \E f \in F, g \in G : rs[q].count = Cardinality(Shared(f, g, rs[q].node))
  <2> TAKE q \in 1..Len(rs)
  <2>1. IsAnswer(c, rs[q].node, rs[q].count)
    BY <1>1, <1>3 DEF Talks
  <2> QED
    BY <1>1, <2>1 DEF IsAnswer
<1>5. \A k \in Node : \E f \in F, g \in G : \E q \in 1..Len(rs) :
        rs[q].node = k /\ rs[q].count = Cardinality(Shared(f, g, k))
  <2> TAKE k \in Node
  <2>1. PICK q \in 1..Len(rs) : rs[q].node = k
    BY <1>2
  <2>2. PICK f \in F, g \in G : rs[q].count = Cardinality(Shared(f, g, rs[q].node))
    BY <1>4
  <2> HIDE DEF F, G, rs
  <2> QED
    BY <2>1, <2>2
<1> DEFINE pick(k) == CHOOSE w \in F \X G : \E q \in 1..Len(rs) :
                        rs[q].node = k /\ rs[q].count = Cardinality(Shared(w[1], w[2], k))
           fs == [k \in Node |-> pick(k)[1]]
           gs == [k \in Node |-> pick(k)[2]]
<1>6. ASSUME NEW k \in Node
      PROVE  /\ pick(k) \in F \X G
             /\ \E q \in 1..Len(rs) :
                   rs[q].node = k /\ rs[q].count = Cardinality(Shared(pick(k)[1], pick(k)[2], k))
  <2> HIDE DEF F, G, rs
  <2>1. \E w \in F \X G : \E q \in 1..Len(rs) :
           rs[q].node = k /\ rs[q].count = Cardinality(Shared(w[1], w[2], k))
    <3>1. PICK f \in F, g \in G : \E q \in 1..Len(rs) :
            rs[q].node = k /\ rs[q].count = Cardinality(Shared(f, g, k))
      BY <1>5
    <3>2. <<f, g>> \in F \X G /\ <<f, g>>[1] = f /\ <<f, g>>[2] = g
      OBVIOUS
    <3> QED
      BY <3>1, <3>2
  <2> QED
    BY <2>1
<1> HIDE DEF pick
<1>7. fs \in [Node -> F] /\ gs \in [Node -> G]
  <2> HIDE DEF F, G
  <2> QED
    BY <1>6
<1>8. \A q \in 1..Len(rs) : rs[q].node \in Node
  BY Resulting
<1>9. \A q \in 1..Len(rs) :
        rs[q].count = Cardinality(Shared(fs[rs[q].node], gs[rs[q].node], rs[q].node))
  <2> TAKE q \in 1..Len(rs)
  <2>1. PICK p \in 1..Len(rs) : rs[p].node = rs[q].node /\ rs[p].count =
           Cardinality(Shared(pick(rs[q].node)[1], pick(rs[q].node)[2], rs[q].node))
    BY <1>6, <1>8
  <2>2. p = q
    BY <1>2, <2>1
  <2> HIDE DEF rs
  <2> QED
    BY <1>8, <2>1, <2>2
<1>10. Total(rs) = Cardinality(SharedBy(fs, gs))
  <2> HIDE DEF rs, fs, gs
  <2> QED
    BY <1>1, <1>2, <1>9, TotalCounts
<1>11. Counts(r, Home, seen[c]) =
         {Cardinality(SharedBy(f, g)) : f \in [Node -> F], g \in [Node -> G]}
  BY DEF Counts, SharedBy, Against
<1> HIDE DEF fs, gs, F, G
<1> QED
  BY <1>7, <1>10, <1>11

\* A gather that succeeds adds up one answer of every node; the failure of a broken
\* connection is among the results by then (sharded.go:86-116).
LEMMA CollectAnswers ==
  ASSUME AInv, RInv', Views', History', NEW c \in Client, Collect(c)
  PROVE  AInv'
<1> DEFINE rs == results[c]
<1>1. /\ pc[c] = "gathering" /\ pc' = [pc EXCEPT ![c] = "returned"]
      /\ UNCHANGED <<inbox, outbox, link, sets, call, serial, todo, tasks, results, value, since, seen>>
      /\ \/ Failed(rs) /\ out' = [out EXCEPT ![c] = [ok |-> FALSE, count |-> 0]]
         \/ /\ ~Failed(rs) /\ Len(rs) = Nodes
            /\ out' = [out EXCEPT ![c] = [ok |-> TRUE, count |-> Total(rs)]]
  BY DEF Collect, Return, nodeVars, callVars, historyVars
<1>2. /\ pc'[c] = "returned"
      /\ \A d \in Client \ {c} : pc'[d] = pc[d] /\ out'[d] = out[d]
  BY <1>1, Shapes
<1>3. CASE Failed(rs) /\ out' = [out EXCEPT ![c] = [ok |-> FALSE, count |-> 0]]
  <2>1. ~out'[c].ok
    BY <1>3, Shapes
  <2>2. ASSUME Clean(c) PROVE Doomed(c)'
    <3>1. rs \in Seq(Result)
      BY Shapes
    <3>2. PICK q \in 1..Len(rs) : ~rs[q].ok
      BY <1>3, <3>1 DEF Failed
    <3>3. PICK k \in Node : k = rs[q].node
      BY Resulting
    <3>4. link[c][k] = "broken" /\ outbox[c][k] = <<>>
      BY <1>1, <2>2, <3>2, <3>3 DEF Clean, Talks, Busy
    <3>5. DoomedBy(c, k)'
      BY <1>1, <1>2, <2>1, <3>4 DEF DoomedBy, Busy
    <3> QED
      BY <3>5 DEF Doomed
  <2>3. ASSUME Doomed(c) PROVE Doomed(c)'
    BY <1>1, <1>2, <2>1, <2>3 DEF Doomed, DoomedBy, Busy
  <2> QED
    BY <1>1, <1>2, <2>2, <2>3, OthersKept DEF AInv
<1>4. CASE /\ ~Failed(rs) /\ Len(rs) = Nodes
           /\ out' = [out EXCEPT ![c] = [ok |-> TRUE, count |-> Total(rs)]]
  <2>1. Current(c) = {}
    <3>1. IsFiniteSet(Current(c)) /\ Len(rs) + Cardinality(Current(c)) = Nodes
      BY <1>1 DEF AInv, RInv, Readers
    <3>2. Cardinality(Current(c)) = 0
      <4>1. Cardinality(Current(c)) \in Nat /\ Nodes \in Nat
        BY <3>1, FS_CardinalityType, NodeAssumption
      <4> QED
        BY <1>4, <3>1, <4>1
    <3> QED
      BY <3>1, <3>2, FS_EmptySet
  <2>2. Clean(c)
    <3>1. ASSUME NEW k \in Node, DoomedBy(c, k) PROVE FALSE
      <4>1. PICK q \in 1..Len(rs) : rs[q].node = k
        BY <1>1, <2>1, <3>1 DEF DoomedBy
      <4>2. ~rs[q].ok
        BY <1>1, <3>1, <4>1 DEF DoomedBy, Busy
      <4>3. rs \in Seq(Result)
        BY Shapes
      <4> QED
        BY <1>4, <4>2, <4>3 DEF Failed
    <3> QED
      BY <3>1 DEF AInv, Doomed
  <2>3. tasks[c] = {}
    BY <2>1, <2>2 DEF Clean, Talks, Current
  <2>4. Total(rs) \in Counts(call[c], Home, seen[c])
    BY <1>1, <1>4, <2>2, <2>3, AllAnswered
  <2>5. out'[c].count = Total(rs)
    <3> HIDE DEF rs
    <3> QED
      BY <1>4, Shapes
  <2>6. Exact(c)'
    BY <1>1, <2>4, <2>5 DEF Exact
  <2>7. Clean(c)'
    BY <1>1, <1>2, <2>2, <2>3, <2>6, Silent, QuietClean
  <2> QED
    BY <1>1, <1>2, <2>7, OthersKept
<1> QED
  BY <1>1, <1>3, <1>4

LEMMA BeginLoadAnswers ==
  ASSUME AInv, RInv', Views', History', NEW c \in Client, NEW r \in Call, BeginLoad(c, r)
  PROVE  AInv'
<1>1. /\ pc[c] = "idle" /\ r.op = "load" /\ r.name \in Name
      /\ pc' = [pc EXCEPT ![c] = "loading"] /\ call' = [call EXCEPT ![c] = r]
      /\ serial' = [serial EXCEPT ![c] = @ + 1]
      /\ results' = [results EXCEPT ![c] = <<>>] /\ todo' = [todo EXCEPT ![c] = Node]
      /\ since' = [d \in Client |->
           IF d = c THEN {r.set} \cup Underway(r.name) \cup
                         {call[e].set : e \in {e \in Client : Loading(e, r.name)}}
           ELSE IF Loading(d, r.name) THEN since[d] \cup {r.set} ELSE since[d]]
      /\ seen' = [d \in Client |->
           IF pc[d] = "gathering" /\ seen[d][r.name] # {}
           THEN [seen[d] EXCEPT ![r.name] = @ \cup {r.set}] ELSE seen[d]]
      /\ UNCHANGED <<inbox, outbox, link, sets, out, tasks>>
  BY ClientAssumption DEF BeginLoad, Begin, nodeVars
<1>2. /\ pc'[c] = "loading" /\ call'[c] = r /\ results'[c] = <<>> /\ todo'[c] = Node
      /\ 1..Len(results'[c]) = {} /\ serial'[c] = serial[c] + 1
      /\ \A d \in Client \ {c} :
           UNCHANGED <<tasks[d], serial[d], inbox[d], outbox[d], link[d], results[d], call[d],
                       pc[d], out[d], todo[d]>>
  BY <1>1, Shapes
<1>3. ASSUME Clean(c) PROVE Clean(c)'
  <2>1. tasks[c] = {}
    BY <1>1, <1>3 DEF Clean, Busy
  <2>2. Talks(c)'
    BY <1>1, <1>2, <1>3, <2>1, Silent DEF Talks
  <2>3. Loads(c)'
    BY <1>1, <1>2 DEF Loads
  <2> QED
    BY <1>1, <1>2, <2>1, <2>2, <2>3 DEF Clean, Gathers, Exact
<1>4. ASSUME Doomed(c) PROVE Doomed(c)'
  <2>1. PICK k \in Node : DoomedBy(c, k)
    BY <1>4 DEF Doomed
  <2>2. Current(c)' = {}
    BY <1>1, <1>2, NoneCurrent DEF AInv
  <2>3. DoomedBy(c, k)'
    BY <1>1, <1>2, <2>1, <2>2 DEF DoomedBy, Busy
  <2> QED
    BY <2>3 DEF Doomed
<1>5. ASSUME NEW d \in Client, d # c PROVE Clean(d)' \/ Doomed(d)'
  <2>1. UNCHANGED <<tasks[d], serial[d], inbox[d], outbox[d], link[d], results[d], call[d],
                    pc[d], out[d], todo[d]>>
    BY <1>2, <1>5
  <2>2. /\ since[d] \subseteq since'[d]
        /\ pc[d] # "gathering" => seen'[d] = seen[d]
        /\ \A y \in Name : seen[d][y] \subseteq seen'[d][y]
    <3>1. seen[d] \in [Name -> SUBSET Global]
      BY Shapes
    <3> QED
      BY <1>1, <1>5, <3>1
  <2>3. CASE Clean(d)
    <3>1. pc[d] = "loading" => \A k \in Node : OneOf(sets[k][call[d].name], since[d], k) =>
                                  OneOf(sets'[k][call[d].name], since'[d], k)
      BY <1>1, <2>2, Grows
    <3>2. pc[d] = "gathering" =>
            \A k \in Node, y \in Operands(call[d]) : OneOf(sets[k][y], seen[d][y], k)
                => OneOf(sets'[k][y], seen'[d][y], k)
      <4>1. pc[d] = "gathering" => Operands(call[d]) \subseteq Name
        BY InCall DEF Busy
      <4> QED
        BY <1>1, <2>2, <4>1, Grows
    <3> QED
      BY <2>1, <2>2, <2>3, <3>1, <3>2, CleanKept
  <2>4. CASE Doomed(d)
    BY <2>1, <2>4, DoomedKept
  <2> QED
    BY <2>3, <2>4 DEF AInv
<1> QED
  BY <1>3, <1>4, <1>5 DEF AInv


\* The goroutines of a client whose connections carry its own call alone.
LEMMA Alone ==
  ASSUME AInv, NEW c \in Client, Clean(c)
  PROVE  /\ Current(c) = tasks[c] /\ \A t \in tasks[c] : t \in Goroutine /\ t.node \in Node
         /\ \A t, u \in tasks[c] : t.node = u.node => t = u
         /\ \A t \in tasks[c] : Busy(c) /\ Exchange(c, t)
<1>1. Current(c) = tasks[c] /\ \A t \in tasks[c] : Busy(c) /\ Exchange(c, t)
  BY DEF Clean, Talks, Current
<1>2. \A t \in tasks[c] : t \in Goroutine /\ t.node \in Node
  BY Shapes DEF Goroutine
<1>3. Readers(c)
  BY DEF AInv, RInv
<1> QED
  BY <1>1, <1>2, <1>3 DEF Readers

\* What Exchange says of a goroutine, with its node named.
LEMMA Talking ==
  ASSUME AInv, NEW c \in Client, Clean(c), NEW t \in tasks[c], NEW k, k = t.node
  PROVE  /\ k \in Node /\ t \in Goroutine /\ t.got \in Seq(Bytes) /\ outbox[c][k] \in Seq(Bytes)
         /\ t.msg = Request(c, k)
         /\ inbox[c][k] # <<>> => /\ t.at = "header" /\ inbox[c][k] = <<t.msg>>
                                  /\ t.got = <<>> /\ outbox[c][k] = <<>>
                                  /\ link[c][k] = "open"
         /\ t.at = "write" => outbox[c][k] = <<>>
         /\ t.at = "header" => t.len = 4 /\ Answering(c, k, t.got \o outbox[c][k], 1)
         /\ t.at = "body" => t.len = 8 /\ Answering(c, k, t.got \o outbox[c][k], 5)
<1>1. t \in Goroutine /\ t.node \in Node /\ t.got \in Seq(Bytes)
  BY Shapes DEF Goroutine
<1>2. outbox[c][k] \in Seq(Bytes)
  BY <1>1, Shapes
<1>3. Exchange(c, t)
  BY Alone
<1>4. t.got \o outbox[c][k] = <<>> => t.got = <<>>
  BY <1>1, <1>2, ConcatEqualIffEmpty
<1> QED
  BY <1>1, <1>2, <1>3, <1>4 DEF Exchange

\* A request is that of a goroutine that waits for a reply.
LEMMA Asked ==
  ASSUME AInv, NEW c \in Client, Clean(c), NEW k \in Node, inbox[c][k] # <<>>
  PROVE  \E t \in tasks[c] : /\ t.node = k /\ t.at = "header" /\ t.len = 4 /\ t.got = <<>>
                             /\ inbox[c][k] = <<t.msg>> /\ outbox[c][k] = <<>>
                             /\ t.msg = Request(c, k) /\ Busy(c)
<1>1. PICK t \in tasks[c] : k = t.node
  BY DEF Clean, Talks
<1>2. t.at = "header"
  BY <1>1, Talking
<1>3. t.len = 4 /\ t.msg = Request(c, k)
  BY <1>1, <1>2, Talking
<1>4. inbox[c][k] = <<t.msg>>
  <2>1. PICK i : i = <<t.msg>>
    OBVIOUS
  <2>2. Exchange(c, t)
    BY Alone
  <2>3. inbox[c][k] = i
    BY <1>1, <2>1, <2>2 DEF Exchange
  <2> QED
    BY <2>1, <2>3
<1>5. t.got = <<>> /\ outbox[c][k] = <<>>
  BY <1>1, Talking
<1>6. Busy(c)
  BY Alone
<1> QED
  BY <1>1, <1>2, <1>3, <1>4, <1>5, <1>6

\* The count that a node replies to a client's own request is an answer.
LEMMA RepliedAnswer ==
  ASSUME AInv, NEW c \in Client, Clean(c), NEW k \in Node, Serve(c, k),
         NEW v \in Nat, v = Count(k, Request(c, k)), Head(inbox[c][k]) = Request(c, k), Busy(c)
  PROVE  IsAnswer(c, k, v)'
<1> DEFINE r == call[c]
<1>1. PICK m : m = Request(c, k)
  OBVIOUS
<1>2. /\ link[c][k] = "open" /\ UNCHANGED <<call, since, seen>>
      /\ m.op # "load" => sets' = sets
      /\ m.op = "load" => sets'[k][m.name] = NodeSlice(m.set, k)
  <2>1. m = Head(inbox[c][k])
    BY <1>1
  <2> QED
    BY <2>1, Served
<1>3. /\ m.op = r.op /\ m.name = r.name /\ m.with = r.with /\ m.set = r.set
      /\ m.words = IF r.op = "stored" THEN <<>> ELSE NodeSlice(r.set, k)
  BY <1>1 DEF Request, Message
<1>4. /\ r.op \in {"load", "stored", "query"} /\ (r.op = "load" <=> pc[c] = "loading")
      /\ r.set \in Global /\ r.name \in Name /\ r.with \in Name
  BY InCall
<1>5. CASE r.op = "load"
  <2>1. r.set \in since[c]
    BY <1>4, <1>5 DEF Clean, Loads
  <2> QED
    BY <1>2, <1>3, <1>5, <2>1 DEF IsAnswer, OneOf, Sliced
<1>6. CASE r.op # "load"
  <2>1. /\ pc[c] = "gathering" /\ sets' = sets
        /\ \A y \in Operands(r) : OneOf(sets[k][y], seen[c][y], k)
    BY <1>2, <1>3, <1>4, <1>6 DEF Busy, Clean, Gathers
  <2>2. PICK f \in seen[c][r.name] : Sliced(sets[k][r.name], f, k)
    BY <2>1 DEF Operands, OneOf
  <2>3. f \in Global
    BY <1>4, Shapes
  <2>4. \E g \in Against(r, seen[c]) : v = Cardinality(Shared(f, g, k))
    <3>1. CASE r.op = "stored"
      <4>1. PICK g \in seen[c][r.with] : Sliced(sets[k][r.with], g, k)
        BY <2>1, <3>1 DEF Operands, OneOf
      <4>2. g \in Global
        BY <1>4, Shapes
      <4>3. v = AndCount(sets[k][r.name], sets[k][r.with])
        BY <1>1, <1>3, <3>1 DEF Count
      <4>4. v = Cardinality(Shared(f, g, k))
        BY <2>2, <2>3, <4>1, <4>2, <4>3, CountOfVersions
      <4> QED
        BY <3>1, <4>4 DEF Against
    <3>2. CASE r.op = "query"
      <4>1. Sliced(m.words, r.set, k)
        BY <1>3, <3>2 DEF Sliced
      <4>2. v = AndCount(sets[k][r.name], m.words)
        BY <1>1, <1>3, <3>2 DEF Count
      <4>3. v = Cardinality(Shared(f, r.set, k))
        BY <1>4, <2>2, <2>3, <4>1, <4>2, CountOfVersions
      <4> QED
        BY <3>2, <4>3 DEF Against
    <3> QED
      BY <1>4, <1>6, <3>1, <3>2
  <2> QED
    BY <1>2, <1>6, <2>2, <2>4 DEF IsAnswer
<1> QED
  BY <1>5, <1>6

\* A reply and its body, byte by byte.
LEMMA ReplyParts ==
  ASSUME NEW m \in Nat
  PROVE  /\ Reply(m) \in Seq(Bytes) /\ Len(Reply(m)) = 12
         /\ \A q \in 1..12 : Reply(m)[q] = [at |-> q, count |-> m]
         /\ SubSeq(Reply(m), 1, 12) = Reply(m)
         /\ SubSeq(Reply(m), 5, 12) \in Seq(Bytes) /\ Len(SubSeq(Reply(m), 5, 12)) = 8
         /\ \A q \in 1..8 : SubSeq(Reply(m), 5, 12)[q] = Reply(m)[q + 4]
<1> DEFINE R == Reply(m)
<1>1. /\ R \in Seq(Bytes) /\ Len(R) = 12 /\ \A q \in 1..12 : R[q] = [at |-> q, count |-> m]
  <2>1. \A i \in 1..12 : [at |-> i, count |-> m] \in Bytes
    BY DEF Bytes
  <2>2. [i \in 1..12 |-> [at |-> i, count |-> m]] \in Seq(Bytes)
    BY <2>1, IsASeq
  <2> QED
    BY <2>2 DEF Reply
<1> HIDE DEF R
<1>2. SubSeq(R, 1, 12) = R
  BY <1>1, SubSeqFull
<1>3. SubSeq(R, 5, 12) \in Seq(Bytes) /\ Len(SubSeq(R, 5, 12)) = 8
      /\ \A q \in 1..8 : SubSeq(R, 5, 12)[q] = R[q + 4]
  <2>1. \A q \in 5..12 : R[q] \in Bytes
    <3>1. \A q \in 5..12 : q \in 1..12
      OBVIOUS
    <3> QED
      BY <1>1, <3>1, ElementOfSeq
  <2>2. /\ SubSeq(R, 5, 12) \in Seq(Bytes)
        /\ Len(SubSeq(R, 5, 12)) = IF 5 <= 12 THEN 12 - 5 + 1 ELSE 0
        /\ \A q \in 1..12 - 5 + 1 : SubSeq(R, 5, 12)[q] = R[5 + q - 1]
    BY <2>1, SubSeqProperties
  <2>3. \A q \in 1..8 : 5 + q - 1 = q + 4
    OBVIOUS
  <2> QED
    BY <2>2, <2>3
<1> QED
  BY <1>1, <1>2, <1>3 DEF R

\* A node stores a slice only of a version that every history knows of, and answers
\* from versions that a query sees.
LEMMA ServeAnswers ==
  ASSUME AInv, RInv', Views', History', NEW c \in Client, NEW k \in Node, Serve(c, k)
  PROVE  AInv'
<1>1. PICK m : m = Head(inbox[c][k])
  OBVIOUS
<1>2. /\ m \in Msg /\ link[c][k] = "open" /\ inbox[c][k] # <<>>
      /\ inbox' = [inbox EXCEPT ![c][k] = Tail(inbox[c][k])]
      /\ UNCHANGED <<link, pc, call, serial, todo, tasks, results, out, value, since, seen>>
      /\ outbox' = [outbox EXCEPT ![c][k] = outbox[c][k] \o Reply(Count(k, m))]
      /\ m.op = "load" => Counted(m.name, m.set)
  <2>1. /\ m \in Msg /\ link[c][k] = "open" /\ inbox[c][k] # <<>>
        /\ inbox' = [inbox EXCEPT ![c][k] = Tail(inbox[c][k])]
        /\ UNCHANGED <<link, pc, call, serial, todo, tasks, results, out, value, since, seen>>
    BY <1>1, Served
  <2>2. outbox' = [outbox EXCEPT ![c][k] = outbox[c][k] \o Reply(Count(k, m))]
    BY <1>1 DEF Serve, Handle
  <2>3. m.op = "load" => Counted(m.name, m.set)
    BY <1>1, Served
  <2> QED
    BY <2>1, <2>2, <2>3
<1>8. \A l \in Node, y \in Name :
        sets'[l][y] = sets[l][y] \/ (m.op = "load" /\ y = m.name /\ sets'[l][y] = NodeSlice(m.set, l))
  BY <1>1, Served
<1>3. ASSUME NEW d \in Client
      PROVE  /\ pc[d] = "loading" => \A l \in Node :
                  OneOf(sets[l][call[d].name], since[d], l) => OneOf(sets'[l][call[d].name], since[d], l)
             /\ pc[d] = "gathering" => \A l \in Node, y \in Operands(call[d]) :
                  OneOf(sets[l][y], seen[d][y], l) => OneOf(sets'[l][y], seen[d][y], l)
  <2>1. ASSUME pc[d] = "loading", NEW l \in Node, OneOf(sets[l][call[d].name], since[d], l)
        PROVE  OneOf(sets'[l][call[d].name], since[d], l)
    <3>1. call[d].name \in Name
      BY <2>1, InCall DEF Busy
    <3>2. CASE sets'[l][call[d].name] = sets[l][call[d].name]
      BY <2>1, <3>2
    <3>3. CASE m.op = "load" /\ call[d].name = m.name /\ sets'[l][call[d].name] = NodeSlice(m.set, l)
      <4>1. m.set \in since[d]
        BY <1>2, <2>1, <3>3 DEF Counted, Loading
      <4> QED
        BY <3>3, <4>1 DEF OneOf, Sliced
    <3> QED
      BY <1>8, <3>1, <3>2, <3>3
  <2>2. ASSUME pc[d] = "gathering", NEW l \in Node, NEW y \in Operands(call[d]), OneOf(sets[l][y], seen[d][y], l)
        PROVE  OneOf(sets'[l][y], seen[d][y], l)
    <3>1. y \in Name
      BY <2>2, InCall DEF Busy
    <3>2. CASE sets'[l][y] = sets[l][y]
      BY <2>2, <3>2
    <3>3. CASE m.op = "load" /\ y = m.name /\ sets'[l][y] = NodeSlice(m.set, l)
      <4>1. m.set \in seen[d][y]
        BY <1>2, <2>2, <3>3 DEF Counted, OneOf
      <4> QED
        BY <3>3, <4>1 DEF OneOf, Sliced
    <3> QED
      BY <1>8, <3>1, <3>2, <3>3
  <2> QED
    BY <2>1, <2>2
<1>4. ASSUME NEW d \in Client, d # c PROVE Clean(d)' \/ Doomed(d)'
  <2>1. UNCHANGED <<tasks[d], serial[d], inbox[d], outbox[d], link[d], results[d], call[d],
                    pc[d], out[d], todo[d], since[d], seen[d]>>
    BY <1>2, <1>4, Shapes
  <2>2. CASE Clean(d)
    BY <1>3, <2>1, <2>2, CleanKept
  <2>3. CASE Doomed(d)
    BY <2>1, <2>3, DoomedKept
  <2> QED
    BY <2>2, <2>3 DEF AInv
<1>5. \A l \in Node \ {k} : inbox'[c][l] = inbox[c][l] /\ outbox'[c][l] = outbox[c][l]
  BY <1>2, Shapes
<1>6. ASSUME Clean(c) PROVE Clean(c)'
  <2>1. PICK t \in tasks[c] :
          /\ t.node = k /\ t.at = "header" /\ t.len = 4 /\ t.got = <<>>
          /\ inbox[c][k] = <<t.msg>> /\ outbox[c][k] = <<>>
          /\ t.msg = Request(c, k) /\ Busy(c)
    BY <1>2, <1>6, Asked
  <2>2. /\ t.at = "header" /\ t.len = 4 /\ t.got = <<>>
        /\ inbox[c][k] = <<t.msg>> /\ outbox[c][k] = <<>>
        /\ t.msg = Request(c, k) /\ Busy(c)
    BY <2>1
  <2>3. m = Request(c, k) /\ Tail(inbox[c][k]) = <<>>
    BY <1>1, <2>2
  <2>4. /\ call[c].name \in Name /\ call[c].with \in Name /\ (call[c].op = "load" <=> pc[c] = "loading")
        /\ call[c].op \in {"load", "stored", "query"} /\ Operands(call[c]) \subseteq Name
    BY <2>2, InCall
  <2>5. Count(k, m) \in Nat
    <3>1. m.op = call[c].op
      BY <2>3 DEF Request, Message
    <3>2. sets[k][m.name] \in Seq(Word) /\ sets[k][m.with] \in Seq(Word) /\ m.words \in Seq(Word)
      BY <1>2, Shapes DEF Msg
    <3>3. /\ AndCount(sets[k][m.name], sets[k][m.with]) \in Nat
          /\ AndCount(sets[k][m.name], m.words) \in Nat
      BY <3>2, AndCountType
    <3> QED
      BY <2>4, <3>1, <3>3 DEF Count
  <2>6. PICK v \in Nat : v = Count(k, m)
    BY <2>5
  <2>7. IsAnswer(c, k, v)'
    BY <1>1, <1>6, <2>2, <2>3, <2>6, RepliedAnswer
  <2>8. ASSUME NEW l \in Node, NEW u, IsAnswer(c, l, u) PROVE IsAnswer(c, l, u)'
    BY <1>2, <1>3, <2>2, <2>4, <2>8, AnswerKept DEF Busy
  <2>9. inbox'[c][k] = <<>> /\ outbox'[c][k] = Reply(v)
    <3>1. outbox[c][k] \o Reply(Count(k, m)) = Reply(v)
      BY <2>2, <2>6 DEF Reply
    <3> QED
      BY <1>2, <2>3, <3>1, Shapes
  <2>10. Answering(c, k, t.got \o Reply(v), 1)'
    <3>1. Reply(v) \in Seq(Bytes) /\ Len(Reply(v)) = 12 /\ SubSeq(Reply(v), 1, 12) = Reply(v)
      BY ReplyParts
    <3>2. Prefix(Reply(v), SubSeq(Reply(v), 1, 12))
      BY <3>1 DEF Prefix
    <3>3. t.got \o Reply(v) = Reply(v)
      BY <2>2, <3>1, ConcatEmptySeq
    <3> QED
      BY <2>7, <3>2, <3>3 DEF Answering
  <2>11. ASSUME NEW u \in tasks[c] PROVE u.serial = serial[c] /\ Exchange(c, u)'
    <3>1. u.serial = serial[c] /\ Exchange(c, u) /\ u.node \in Node
      BY <1>6, Alone DEF Clean, Talks
    <3>2. CASE u = t
      BY <1>2, <2>1, <2>2, <2>9, <2>10, <3>1, <3>2 DEF Exchange, Request
    <3>3. CASE u # t
      <4>1. u.node # k
        BY <1>6, <2>1, <3>3, Alone
      <4> DEFINE l == u.node
                 o == u.got \o outbox[c][l]
      <4>2. \A from : Answering(c, l, o, from) => Answering(c, l, o, from)'
        BY <1>5, <2>8, <3>1, <4>1 DEF Answering
      <4>3. u.msg = Request(c, l)'
        BY <1>2, <3>1 DEF Exchange, Request
      <4>4. inbox'[c][l] = inbox[c][l] /\ outbox'[c][l] = outbox[c][l] /\ link'[c][l] = link[c][l]
        BY <1>2, <1>5, <3>1, <4>1
      <4> QED
        BY <3>1, <4>2, <4>3, <4>4 DEF Exchange
    <3> QED
      BY <3>2, <3>3
  <2>12. ASSUME NEW l \in Node, \A u \in tasks[c] : u.node # l
         PROVE  inbox'[c][l] = <<>> /\ outbox'[c][l] = <<>>
    <3>1. l # k
      BY <2>1, <2>12
    <3> QED
      BY <1>5, <1>6, <2>12, <3>1 DEF Clean, Talks
  <2>13. ASSUME NEW q \in 1..Len(results[c])
         PROVE  /\ \A u \in tasks[c] : u.node # results[c][q].node
                /\ IF results[c][q].ok THEN IsAnswer(c, results[c][q].node, results[c][q].count)'
                   ELSE link'[c][results[c][q].node] = "broken"
    <3>0. PICK l \in Node : l = results[c][q].node
      BY Resulting
    <3>1. PICK u : l = results[c][q].node /\ u = results[c][q].count
      BY <3>0
    <3>2. /\ \A w \in tasks[c] : w.node # l
          /\ IF results[c][q].ok THEN IsAnswer(c, l, u) ELSE link[c][l] = "broken"
      BY <1>6, <2>2, <3>1 DEF Clean, Talks
    <3> QED
      BY <1>2, <2>8, <3>1, <3>2
  <2>14. Talks(c)'
    BY <1>2, <2>11, <2>12, <2>13 DEF Talks
  <2>15. Loads(c)'
    BY <1>2, <1>3, <1>6 DEF Clean, Loads
  <2>16. Gathers(c)'
    BY <1>2, <1>3, <1>6 DEF Clean, Gathers
  <2> QED
    BY <1>2, <1>6, <2>2, <2>14, <2>15, <2>16 DEF Clean, Busy, Exact
<1>7. ASSUME Doomed(c) PROVE Doomed(c)'
  <2>1. PICK l \in Node : DoomedBy(c, l)
    BY <1>7 DEF Doomed
  <2>2. outbox'[c][l] = outbox[c][l]
    BY <1>2, <1>5, <2>1 DEF DoomedBy
  <2>3. DoomedBy(c, l)'
    BY <1>2, <2>1, <2>2 DEF DoomedBy, Busy, Current
  <2> QED
    BY <2>3 DEF Doomed
<1> QED
  BY <1>4, <1>6, <1>7 DEF AInv

\* A request of a connection that its client has closed changes what the node stores,
\* and nothing that a client waits for.
LEMMA ServeLateAnswers ==
  ASSUME AInv, RInv', Views', History', NEW k \in Node, ServeLate(k)
  PROVE  AInv'
<1>1. /\ UNCHANGED <<link, inbox, outbox, pc, call, serial, todo, tasks, results, out, value,
                     since, seen>>
      /\ \A l \in Node, y \in Name :
           \/ sets'[l][y] = sets[l][y]
           \/ \E v : Counted(y, v) /\ sets'[l][y] = NodeSlice(v, l)
  BY ServedLate
<1>2. ASSUME NEW d \in Client
      PROVE  /\ pc[d] = "loading" => \A l \in Node :
                  OneOf(sets[l][call[d].name], since[d], l) => OneOf(sets'[l][call[d].name], since[d], l)
             /\ pc[d] = "gathering" => \A l \in Node, y \in Operands(call[d]) :
                  OneOf(sets[l][y], seen[d][y], l) => OneOf(sets'[l][y], seen[d][y], l)
  <2>1. ASSUME pc[d] = "loading", NEW l \in Node, OneOf(sets[l][call[d].name], since[d], l)
        PROVE  OneOf(sets'[l][call[d].name], since[d], l)
    <3>1. PICK y \in Name : y = call[d].name
      BY <2>1, InCall DEF Busy
    <3>2. CASE sets'[l][y] = sets[l][y]
      BY <2>1, <3>1, <3>2
    <3>3. ASSUME NEW v, Counted(y, v), sets'[l][y] = NodeSlice(v, l)
          PROVE  OneOf(sets'[l][y], since[d], l)
      <4>1. v \in since[d]
        BY <2>1, <3>1, <3>3 DEF Counted, Loading
      <4> QED
        BY <3>3, <4>1 DEF OneOf, Sliced
    <3> QED
      BY <1>1, <3>1, <3>2, <3>3
  <2>2. ASSUME pc[d] = "gathering", NEW l \in Node, NEW y \in Operands(call[d]), OneOf(sets[l][y], seen[d][y], l)
        PROVE  OneOf(sets'[l][y], seen[d][y], l)
    <3>1. y \in Name
      BY <2>2, InCall DEF Busy
    <3>2. CASE sets'[l][y] = sets[l][y]
      BY <2>2, <3>2
    <3>3. ASSUME NEW v, Counted(y, v), sets'[l][y] = NodeSlice(v, l)
          PROVE  OneOf(sets'[l][y], seen[d][y], l)
      <4>1. v \in seen[d][y]
        BY <2>2, <3>3 DEF Counted, OneOf
      <4> QED
        BY <3>3, <4>1 DEF OneOf, Sliced
    <3> QED
      BY <1>1, <3>1, <3>2, <3>3
  <2> QED
    BY <2>1, <2>2
<1>3. ASSUME NEW d \in Client PROVE Clean(d)' \/ Doomed(d)'
  <2>1. CASE Clean(d)
    BY <1>1, <1>2, <2>1, CleanKept
  <2>2. CASE Doomed(d)
    BY <1>1, <2>2, DoomedKept
  <2> QED
    BY <2>1, <2>2 DEF AInv
<1> QED
  BY <1>3 DEF AInv

\* A node that dies stores the empty version of every name, which a load in progress
\* reckons with, and answers nobody any more.
LEMMA DeathAnswers ==
  ASSUME AInv, RInv', Views', History', NEW k \in Node, NodeDies(k)
  PROVE  AInv'
<1>1. /\ sets' = [sets EXCEPT ![k] = [y \in Name |-> <<>>]]
      /\ link' = [c \in Client |-> [link[c] EXCEPT ![k] = IF @ = "open" THEN "broken" ELSE @]]
      /\ inbox' = [c \in Client |-> [inbox[c] EXCEPT ![k] = <<>>]]
      /\ since' = [c \in Client |-> IF pc[c] = "loading" THEN since[c] \cup {Empty} ELSE {}]
      /\ UNCHANGED <<outbox, pc, call, serial, todo, tasks, results, out, seen>>
  BY DEF NodeDies, Crash, callVars
<1>2. \A l \in Node, y \in Name : sets'[l][y] = IF l = k THEN <<>> ELSE sets[l][y]
  BY <1>1, Shapes
<1>3. ASSUME NEW d \in Client PROVE Clean(d)' \/ Doomed(d)'
  <2>1. ASSUME NEW l \in Node
        PROVE  \/ l # k /\ inbox'[d][l] = inbox[d][l] /\ link'[d][l] = link[d][l]
               \/ /\ inbox'[d][l] = <<>> /\ link'[d][l] # "open"
                  /\ link[d][l] = "broken" => link'[d][l] = "broken"
    <3>1. CASE l = k
      BY <1>1, <3>1, Shapes
    <3>2. CASE l # k
      BY <1>1, <3>2, Shapes
    <3> QED
      BY <3>1, <3>2
  <2>2. CASE Clean(d)
    <3>1. ASSUME pc[d] = "loading"
          PROVE  /\ since[d] \subseteq since'[d]
                 /\ \A l \in Node : OneOf(sets[l][call[d].name], since[d], l) =>
                                      OneOf(sets'[l][call[d].name], since'[d], l)
      <4>1. call[d].name \in Name /\ since'[d] = since[d] \cup {Empty}
        BY <1>1, <3>1, InCall DEF Busy
      <4>2. ASSUME NEW l \in Node, OneOf(sets[l][call[d].name], since[d], l)
            PROVE  OneOf(sets'[l][call[d].name], since'[d], l)
        <5>1. CASE l = k
          BY <1>2, <4>1, <5>1 DEF OneOf, Sliced
        <5>2. CASE l # k
          BY <1>2, <4>1, <4>2, <5>2, Grows
        <5> QED
          BY <5>1, <5>2
      <4> QED
        BY <4>1, <4>2
    <3>2. ASSUME pc[d] = "gathering"
          PROVE  /\ \A y \in Name : seen[d][y] \subseteq seen'[d][y]
                 /\ \A l \in Node, y \in Operands(call[d]) :
                      link[d][l] = "open" /\ link'[d][l] = "open" /\ OneOf(sets[l][y], seen[d][y], l)
                        => OneOf(sets'[l][y], seen'[d][y], l)
      <4>1. Operands(call[d]) \subseteq Name
        BY <3>2, InCall DEF Busy
      <4> QED
        BY <1>1, <1>2, <2>1, <4>1
    <3> QED
      BY <1>1, <2>1, <2>2, <3>1, <3>2, CleanKept
  <2>3. CASE Doomed(d)
    BY <1>1, <2>1, <2>3, DoomedKept
  <2> QED
    BY <2>2, <2>3 DEF AInv
<1> QED
  BY <1>3 DEF AInv

\* Steps that change nothing of the clients' states or of their connections.
LEMMA StillAnswers ==
  ASSUME AInv, RInv', Views', History',
         UNCHANGED <<sets, link, inbox, outbox, pc, call, serial, todo, tasks, results, out, since, seen>>
  PROVE  AInv'
<1>1. ASSUME NEW d \in Client PROVE Clean(d)' \/ Doomed(d)'
  <2>1. CASE Clean(d)
    BY <2>1, CleanKept
  <2>2. CASE Doomed(d)
    BY <2>2, DoomedKept
  <2> QED
    BY <2>1, <2>2 DEF AInv
<1> QED
  BY <1>1 DEF AInv

\* The rest of a reply on a broken connection is a prefix of it still.
LEMMA LoseAnswers ==
  ASSUME AInv, RInv', Views', History', NEW c \in Client, NEW k \in Node, Lose(c, k),
         UNCHANGED <<pc, callVars, todo, tasks, results, out, historyVars>>
  PROVE  AInv'
<1> DEFINE o == outbox[c][k]
           left == IF Len(o) > Piece THEN Len(o) - Piece ELSE 0
<1>1. /\ link[c][k] = "broken" /\ o # <<>>
      /\ outbox' = [outbox EXCEPT ![c][k] = SubSeq(o, 1, left)]
      /\ UNCHANGED <<sets, link, inbox, pc, call, serial, todo, tasks, results, out, since, seen>>
  BY DEF Lose, callVars, historyVars
<1>2. o \in Seq(Bytes)
  BY Shapes
<1>10. PICK w : w = SubSeq(o, 1, left)
  OBVIOUS
<1> HIDE DEF o
<1>3. /\ w \in Seq(Bytes) /\ Len(w) \in Nat /\ Len(w) <= Len(o) /\ Len(o) \in Nat
      /\ \A q \in 1..Len(w) : w[q] = o[q]
  <2>1. left \in Nat /\ left <= Len(o)
    BY <1>2, NodeAssumption
  <2> HIDE DEF left
  <2> QED
    BY <1>2, <1>10, <2>1
<1>4. \A g, s \in Seq(Bytes) : Prefix(g \o o, s) => Prefix(g \o w, s)
  <2> TAKE g, s \in Seq(Bytes)
  <2> SUFFICES ASSUME Prefix(g \o o, s) PROVE Prefix(g \o w, s)
    OBVIOUS
  <2>1. /\ Len(g \o o) = Len(g) + Len(o) /\ Len(g \o w) = Len(g) + Len(w)
        /\ Len(s) \in Nat /\ Len(g) \in Nat
    BY <1>2, <1>3
  <2>2. \A q \in 1..Len(g \o w) : (g \o w)[q] = (g \o o)[q] /\ q \in 1..Len(g \o o)
    BY <1>2, <1>3
  <2>3. Len(g \o w) <= Len(s)
    BY <1>3, <2>1 DEF Prefix
  <2> QED
    BY <2>2, <2>3 DEF Prefix
<1>5. /\ outbox'[c][k] = w
      /\ \A l \in Node \ {k} : outbox'[c][l] = outbox[c][l]
      /\ \A d \in Client \ {c} : outbox'[d] = outbox[d]
  BY <1>1, <1>10, Shapes
<1>6. \A l \in Node : \A m : IsAnswer(c, l, m) => IsAnswer(c, l, m)'
  BY <1>1 DEF IsAnswer
<1>7. ASSUME NEW t \in tasks[c], NEW from \in {1, 5},
             Answering(c, t.node, t.got \o outbox[c][t.node], from)
      PROVE  Answering(c, t.node, t.got \o outbox[c][t.node], from)'
  <2>1. t.node \in Node /\ t.got \in Seq(Bytes)
    BY Shapes DEF Goroutine
  <2>2. \A m \in Nat : SubSeq(Reply(m), from, 12) \in Seq(Bytes)
    BY ReplyParts
  <2>3. CASE t.node = k
    <3>1. t.got \o o # <<>>
      BY <1>1, <1>2, <2>1
    <3>2. PICK m \in Nat : IsAnswer(c, k, m) /\ Prefix(t.got \o o, SubSeq(Reply(m), from, 12))
      BY <1>7, <2>3, <3>1 DEF Answering, o
    <3>3. Prefix(t.got \o w, SubSeq(Reply(m), from, 12)) /\ IsAnswer(c, k, m)'
      BY <1>4, <1>6, <2>1, <2>2, <3>2
    <3> QED
      BY <1>5, <2>3, <3>3 DEF Answering
  <2>4. CASE t.node # k
    BY <1>5, <1>6, <1>7, <2>1, <2>4 DEF Answering
  <2> QED
    BY <2>3, <2>4
<1>9. ASSUME Clean(c) PROVE Clean(c)'
  <2>1. ASSUME NEW t \in tasks[c] PROVE t.serial = serial[c] /\ Exchange(c, t)'
    <3>1. t.serial = serial[c] /\ Exchange(c, t) /\ t.node \in Node
      BY <1>9, Alone DEF Clean, Talks
    <3>2. t.msg = Request(c, t.node)'
      BY <1>1, <3>1 DEF Exchange, Request
    <3>3. outbox[c][t.node] = <<>> => outbox'[c][t.node] = <<>>
      BY <1>1, <1>5, <3>1 DEF o
    <3>4. /\ t.at = "header" => Answering(c, t.node, t.got \o outbox[c][t.node], 1)'
          /\ t.at = "body" => Answering(c, t.node, t.got \o outbox[c][t.node], 5)'
      BY <1>7, <3>1 DEF Exchange
    <3> QED
      BY <1>1, <3>1, <3>2, <3>3, <3>4 DEF Exchange
  <2>2. ASSUME NEW l \in Node, \A u \in tasks[c] : u.node # l
        PROVE  inbox'[c][l] = <<>> /\ outbox'[c][l] = <<>>
    BY <1>1, <1>5, <1>9, <2>2 DEF Clean, Talks, o
  <2>3. ASSUME NEW q \in 1..Len(results[c])
        PROVE  /\ \A u \in tasks[c] : u.node # results[c][q].node
               /\ Busy(c) => IF results[c][q].ok THEN IsAnswer(c, results[c][q].node, results[c][q].count)'
                             ELSE link'[c][results[c][q].node] = "broken"
    <3>0. PICK l \in Node : l = results[c][q].node
      BY Resulting
    <3>1. PICK u : l = results[c][q].node /\ u = results[c][q].count
      BY <3>0
    <3>2. /\ \A v \in tasks[c] : v.node # l
          /\ Busy(c) => IF results[c][q].ok THEN IsAnswer(c, l, u) ELSE link[c][l] = "broken"
      BY <1>9, <3>1 DEF Clean, Talks
    <3> QED
      BY <1>1, <1>6, <3>1, <3>2
  <2>4. Talks(c)'
    BY <1>1, <2>1, <2>2, <2>3 DEF Talks, Busy
  <2> QED
    BY <1>1, <1>9, <2>4 DEF Clean, Busy, Loads, Gathers, Exact
<1>11. ASSUME Doomed(c) PROVE Doomed(c)'
  <2>1. PICK l \in Node : DoomedBy(c, l)
    BY <1>11 DEF Doomed
  <2>2. outbox'[c][l] = outbox[c][l]
    BY <1>1, <1>5, <2>1 DEF DoomedBy, o
  <2>3. DoomedBy(c, l)'
    BY <1>1, <2>1, <2>2 DEF DoomedBy, Busy, Current
  <2> QED
    BY <2>3 DEF Doomed
<1> QED
  BY <1>1, <1>5, <1>9, <1>11, OthersKept DEF AInv

-----------------------------------------------------------------------------
(* The goroutines of a client whose connections carry its own call alone *)

\* What goes on at one connection leaves the client's others alone.
LEMMA Elsewhere ==
  ASSUME AInv, NEW c \in Client, Clean(c), NEW k \in Node,
         UNCHANGED <<sets, link, pc, call, since, seen>>,
         \A l \in Node \ {k} : inbox'[c][l] = inbox[c][l] /\ outbox'[c][l] = outbox[c][l]
  PROVE  /\ \A l, m : IsAnswer(c, l, m) => IsAnswer(c, l, m)'
         /\ \A u \in tasks[c] : u.node # k => Exchange(c, u)'
<1>1. \A l, m : IsAnswer(c, l, m) => IsAnswer(c, l, m)'
  BY DEF IsAnswer
<1>2. ASSUME NEW u \in tasks[c], u.node # k PROVE Exchange(c, u)'
  <2>1. u.node \in Node \ {k} /\ Exchange(c, u)
    BY <1>2, Alone
  <2> DEFINE l == u.node
             o == u.got \o outbox[c][l]
  <2>2. \A from : Answering(c, l, o, from) => Answering(c, l, o, from)'
    BY <1>1, <2>1 DEF Answering
  <2>3. u.msg = Request(c, l)'
    BY <2>1 DEF Exchange, Request
  <2> QED
    BY <2>1, <2>2, <2>3 DEF Exchange
<1> QED
  BY <1>1, <1>2

LEMMA CleanAdvances ==
  ASSUME AInv, NEW c \in Client, Clean(c), NEW t \in tasks[c],
         NEW u, u.node = t.node, u.serial = t.serial, Exchange(c, u)',
         tasks'[c] = (tasks[c] \ {t}) \cup {u}, results' = results,
         \A l \in Node : l # t.node =>
            inbox'[c][l] = inbox[c][l] /\ outbox'[c][l] = outbox[c][l],
         UNCHANGED <<sets, link, pc, call, serial, todo, out, since, seen>>
  PROVE  Clean(c)'
<1>1. PICK k \in Node : k = t.node
  BY Alone
<1>2. u.node = k /\ \A v \in tasks[c] : v.node = k => v = t
  BY <1>1, Alone
<1>3. \A l \in Node \ {k} : inbox'[c][l] = inbox[c][l] /\ outbox'[c][l] = outbox[c][l]
  BY <1>1
<1>4. /\ \A l, m : IsAnswer(c, l, m) => IsAnswer(c, l, m)'
      /\ \A v \in tasks[c] : v.node # k => Exchange(c, v)'
  BY <1>3, Elsewhere
<1>5. \A l : (\A v \in tasks[c] : v.node # l) <=> (\A v \in tasks'[c] : v.node # l)
  BY <1>1, <1>2
<1>6. Talks(c) /\ Busy(c) /\ Gathers(c)
  BY Alone DEF Clean
<1>7. Talks(c)'
  <2>1. \A v \in tasks'[c] : v.serial = serial'[c] /\ Exchange(c, v)'
    BY <1>2, <1>4, <1>6 DEF Talks
  <2>2. ASSUME NEW l \in Node, \A v \in tasks'[c] : v.node # l
        PROVE  inbox'[c][l] = <<>> /\ outbox'[c][l] = <<>>
    <3>1. l # k /\ \A v \in tasks[c] : v.node # l
      BY <1>2, <1>5, <2>2
    <3> QED
      BY <1>3, <1>6, <3>1 DEF Talks
  <2>3. ASSUME NEW q \in 1..Len(results[c])
        PROVE  /\ \A v \in tasks'[c] : v.node # results[c][q].node
               /\ IF results[c][q].ok THEN IsAnswer(c, results[c][q].node, results[c][q].count)'
                  ELSE link[c][results[c][q].node] = "broken"
    <3>1. PICK l, v : l = results[c][q].node /\ v = results[c][q].count
      OBVIOUS
    <3>2. /\ \A y \in tasks[c] : y.node # l
          /\ IF results[c][q].ok THEN IsAnswer(c, l, v) ELSE link[c][l] = "broken"
      BY <1>6, <3>1 DEF Talks
    <3> QED
      BY <1>4, <1>5, <3>1, <3>2
  <2> QED
    BY <2>1, <2>2, <2>3 DEF Talks
<1>8. Gathers(c)'
  <2>1. \A l \in Node : (\E v \in tasks[c] : v.node = l) => \E v \in tasks'[c] : v.node = l
    BY <1>5
  <2> QED
    BY <1>6, <2>1 DEF Gathers
<1> QED
  BY <1>6, <1>7, <1>8 DEF Clean, Busy, Loads, Exact

LEMMA CleanDelivers ==
  ASSUME AInv, NEW c \in Client, Clean(c), NEW t \in tasks[c],
         NEW k \in Node, k = t.node, NEW ok \in BOOLEAN, NEW m \in Nat,
         Deliver(c, t, ok, m), ok => IsAnswer(c, k, m), ~ok => link[c][k] = "broken",
         inbox[c][k] = <<>>, inbox' = inbox, outbox' = [outbox EXCEPT ![c][k] = <<>>],
         UNCHANGED <<sets, link, pc, call, serial, todo, out, since, seen>>
  PROVE  Clean(c)'
<1> DEFINE r == [node |-> k, ok |-> ok, count |-> m]
           rs == results'[c]
<1>1. Talks(c) /\ Busy(c) /\ Gathers(c) /\ TInv
  BY Alone DEF Clean, AInv, RInv
<1>2. /\ tasks'[c] = tasks[c] \ {t} /\ rs = Append(results[c], r)
  BY <1>1, CurrentDelivers, Alone DEF Busy
<1>3. \A v \in tasks'[c] : v \in tasks[c] /\ v.node # k
  BY <1>2, Alone
<1>4. /\ Len(rs) = Len(results[c]) + 1 /\ Len(results[c]) \in Nat
      /\ rs[Len(results[c]) + 1] = r
      /\ \A q \in 1..Len(results[c]) : rs[q] = results[c][q]
  <2> HIDE DEF r
  <2>1. rs = Append(results[c], r) /\ results[c] \in Seq(Result)
    BY <1>2, Shapes
  <2> HIDE DEF rs
  <2> QED
    BY <2>1
<1>5. \A q \in 1..Len(rs) : \/ q \in 1..Len(results[c]) /\ rs[q] = results[c][q]
                            \/ q = Len(results[c]) + 1 /\ rs[q] = r
  <2> HIDE DEF r, rs
  <2> QED
    BY <1>4
<1>6. r.node = k /\ r.ok = ok /\ r.count = m
  OBVIOUS
<1> HIDE DEF r, rs
<1>7. /\ outbox'[c][k] = <<>>
      /\ \A l \in Node \ {k} : inbox'[c][l] = inbox[c][l] /\ outbox'[c][l] = outbox[c][l]
  BY Shapes
<1>8. /\ \A l, v : IsAnswer(c, l, v) => IsAnswer(c, l, v)'
      /\ \A v \in tasks[c] : v.node # k => Exchange(c, v)'
  BY <1>7, Elsewhere
<1>9. \A q \in 1..Len(results[c]) : results[c][q].node # k
  BY <1>1 DEF Talks
<1>10. Talks(c)'
  <2>1. \A v \in tasks'[c] : v.serial = serial'[c] /\ Exchange(c, v)'
    BY <1>1, <1>3, <1>8 DEF Talks
  <2>2. ASSUME NEW l \in Node, \A v \in tasks'[c] : v.node # l
        PROVE  inbox'[c][l] = <<>> /\ outbox'[c][l] = <<>>
    <3>1. CASE l = k
      BY <1>7, <3>1
    <3>2. CASE l # k
      <4>1. \A v \in tasks[c] : v.node # l
        BY <1>2, <2>2, <3>2
      <4> QED
        BY <1>1, <1>7, <3>2, <4>1 DEF Talks
    <3> QED
      BY <3>1, <3>2
  <2>3. ASSUME NEW q \in 1..Len(rs)
        PROVE  /\ \A v \in tasks'[c] : v.node # rs[q].node
               /\ IF rs[q].ok THEN IsAnswer(c, rs[q].node, rs[q].count)
                  ELSE link[c][rs[q].node] = "broken"
    <3>1. CASE q \in 1..Len(results[c]) /\ rs[q] = results[c][q]
      BY <1>1, <1>3, <3>1 DEF Talks
    <3>2. CASE rs[q] = r
      BY <1>3, <1>6, <3>2
    <3> QED
      BY <1>5, <3>1, <3>2
  <2>4. ASSUME NEW q \in 1..Len(rs), rs[q].ok
        PROVE  IsAnswer(c, results[c][q].node, results[c][q].count)'
    <3>1. PICK l, v : l = rs[q].node /\ v = rs[q].count
      OBVIOUS
    <3>2. IsAnswer(c, l, v)'
      BY <1>8, <2>3, <2>4, <3>1
    <3> QED
      BY <3>1, <3>2 DEF rs
  <2> QED
    BY <2>1, <2>2, <2>3, <2>4 DEF Talks, rs
<1>11. Gathers(c)'
  <2> SUFFICES ASSUME pc[c] = "gathering" PROVE Gathers(c)'
    BY DEF Gathers
  <2>1. ASSUME NEW l \in Node
        PROVE  (\E v \in tasks'[c] : v.node = l) \/ \E q \in 1..Len(rs) : rs[q].node = l
    <3>1. CASE l = k
      BY <1>4, <1>6, <3>1
    <3>2. CASE \E v \in tasks[c] : v.node = l /\ l # k
      BY <1>2, <3>2
    <3>3. CASE \E q \in 1..Len(results[c]) : results[c][q].node = l
      BY <1>4, <3>3
    <3> QED
      BY <1>1, <3>1, <3>2, <3>3 DEF Gathers
  <2>2. \A p, q \in 1..Len(rs) : rs[p].node = rs[q].node => p = q
    BY <1>1, <1>5, <1>6, <1>9 DEF Gathers
  <2>3. results'[c] = rs
    BY DEF rs
  <2> QED
    BY <1>1, <2>1, <2>2, <2>3 DEF Gathers
<1> QED
  BY <1>1, <1>10, <1>11 DEF Clean, Busy, Loads, Exact

\* Concatenation of bytes.
LEMMA ConcatBytes ==
  ASSUME NEW x \in Seq(Bytes), NEW y \in Seq(Bytes), NEW z \in Seq(Bytes)
  PROVE  (x \o y) \o z = x \o (y \o z)
BY ConcatAssociative

\* What a Read leaves of the bytes of a connection.
Rest(c, t) ==
  LET all == outbox[c][t.node]
  IN  SubSeq(all, Len(Arrived(c, t)) + 1, Len(all))

\* A Read splits the bytes of a connection, and loses none of them.
LEMMA ReadSplits ==
  ASSUME NEW c \in Client, NEW t \in Goroutine, outbox[c][t.node] \in Seq(Bytes)
  PROVE  /\ t.got \in Seq(Bytes) /\ Arrived(c, t) \in Seq(Bytes) /\ Rest(c, t) \in Seq(Bytes)
         /\ (t.got \o Arrived(c, t)) \o Rest(c, t) = t.got \o outbox[c][t.node]
         /\ outbox[c][t.node] = <<>> => Arrived(c, t) = <<>> /\ Rest(c, t) = <<>>
         /\ Arrived(c, t) = <<>> /\ Missing(t) > 0 => outbox[c][t.node] = <<>>
<1> DEFINE m == Missing(t)
<1>0. PICK o, a, w, g : o = outbox[c][t.node] /\ a = Arrived(c, t) /\ w = Rest(c, t) /\ g = t.got
  OBVIOUS
<1>1. m \in Nat /\ g \in Seq(Bytes) /\ o \in Seq(Bytes) /\ Len(o) \in Nat
  BY <1>0, MaxMsgType DEF Missing, Goroutine
<1>2. a = IF Len(o) < m THEN o ELSE SubSeq(o, 1, m)
  BY <1>0 DEF Arrived
<1>6. w = SubSeq(o, Len(a) + 1, Len(o))
  BY <1>0 DEF Rest
<1> HIDE DEF m
<1>3. a \in Seq(Bytes) /\ w \in Seq(Bytes) /\ a \o w = o /\ (a = <<>> /\ m > 0 => o = <<>>)
  <2>1. CASE Len(o) < m
    <3>1. a = o /\ w = <<>>
      BY <1>1, <1>2, <1>6, <2>1, SubSeqEmpty
    <3>2. o \o <<>> = o
      BY <1>1, ConcatEmptySeq
    <3> QED
      BY <1>1, <3>1, <3>2
  <2>2. CASE Len(o) >= m
    <3>1. a = SubSeq(o, 1, m)
      BY <1>1, <1>2, <2>2
    <3>2. \A q \in 1..m : o[q] \in Bytes
      BY <1>1, <2>2, ElementOfSeq
    <3>3. a \in Seq(Bytes) /\ Len(a) = IF 1 <= m THEN m - 1 + 1 ELSE 0
      BY <1>1, <3>1, <3>2, SubSeqProperties
    <3>10. Len(a) = m
      BY <1>1, <3>3
    <3>4. Len(a) = m /\ w = SubSeq(o, m + 1, Len(o))
      BY <1>6, <3>10, Zenon
    <3>5. \A q \in m + 1..Len(o) : o[q] \in Bytes
      BY <1>1, <2>2, ElementOfSeq
    <3>6. w \in Seq(Bytes)
      BY <1>1, <3>4, <3>5, SubSeqProperties
    <3>7. 1 \in 1..Len(o) + 1 /\ m \in 1 - 1..Len(o) /\ Len(o) \in m..Len(o)
      BY <1>1, <2>2
    <3>8. a \o w = SubSeq(o, 1, Len(o))
      BY <1>1, <3>1, <3>4, <3>7, ConcatAdjacentSubSeq
    <3>9. a = <<>> => m = 0
      BY <1>1, <3>3
    <3>11. SubSeq(o, 1, Len(o)) = o
      BY <1>1, SubSeqFull
    <3>12. ~(a = <<>> /\ m > 0)
      BY <1>1, <3>9
    <3> QED
      BY <3>3, <3>6, <3>8, <3>11, <3>12, Zenon
  <2>3. Len(o) < m \/ Len(o) >= m
    BY <1>1
  <2> QED
    BY <2>1, <2>2, <2>3, Zenon
<1>4. o = <<>> => a = <<>> /\ w = <<>>
  BY <1>3, ConcatEqualIffEmpty
<1>5. (g \o a) \o w = g \o (a \o w)
  <2>1. g \in Seq(Bytes) /\ a \in Seq(Bytes) /\ w \in Seq(Bytes)
    BY <1>1, <1>3
  <2> QED
    BY <2>1, ConcatBytes, SMT
<1>7. (g \o a) \o w = g \o o
  BY <1>3, <1>5, Zenon
<1> QED
  BY <1>0, <1>1, <1>3, <1>4, <1>7, Zenon DEF m

\* What comes first of a part of a sequence, and what comes after it.
LEMMA PrefixSplits ==
  ASSUME NEW x \in Seq(Bytes), NEW y \in Seq(Bytes), NEW s \in Seq(Bytes), Prefix(x \o y, s)
  PROVE  /\ \A q \in 1..Len(x) : q \in 1..Len(s) /\ x[q] = s[q]
         /\ \A q \in 1..Len(y) : Len(x) + q \in 1..Len(s) /\ y[q] = s[Len(x) + q]
         /\ Len(x) + Len(y) <= Len(s) /\ Len(x) \in Nat /\ Len(y) \in Nat
<1>1. /\ Len(x \o y) = Len(x) + Len(y) /\ Len(x) \in Nat /\ Len(y) \in Nat /\ Len(s) \in Nat
      /\ \A q \in 1..Len(x) : (x \o y)[q] = x[q]
      /\ \A q \in 1..Len(y) : (x \o y)[Len(x) + q] = y[q]
  <2>1. Len(x) \in Nat /\ Len(y) \in Nat /\ Len(s) \in Nat
    BY LenProperties
  <2>2. \A q \in 1..Len(y) : Len(x) + q \in 1..Len(x) + Len(y) /\ ~(Len(x) + q <= Len(x))
                              /\ Len(x) + q - Len(x) = q
    BY <2>1
  <2>3. \A q \in 1..Len(x) : q \in 1..Len(x) + Len(y) /\ q <= Len(x)
    BY <2>1
  <2>4. /\ Len(x \o y) = Len(x) + Len(y)
        /\ \A q \in 1..Len(x) + Len(y) :
             (x \o y)[q] = IF q <= Len(x) THEN x[q] ELSE y[q - Len(x)]
    BY ConcatProperties
  <2> QED
    BY <2>1, <2>2, <2>3, <2>4
<1>2. /\ Len(x) + Len(y) <= Len(s)
      /\ \A q \in 1..Len(x) + Len(y) : (x \o y)[q] = s[q] /\ q \in 1..Len(s)
  BY <1>1 DEF Prefix
<1>3. /\ \A q \in 1..Len(y) : Len(x) + q \in 1..Len(x) + Len(y)
      /\ \A q \in 1..Len(x) : q \in 1..Len(x) + Len(y)
  BY <1>1
<1> QED
  BY <1>1, <1>2, <1>3, Zenon

\* A part of a header or body is read.
LEMMA CleanPart ==
  ASSUME AInv, NEW c \in Client, Clean(c), NEW t \in tasks[c], ReadPart(c, t)
  PROVE  Clean(c)'
<1>1. PICK k \in Node : k = t.node
  BY Alone
<1>0. PICK a, w : a = Arrived(c, t) /\ w = Rest(c, t)
  OBVIOUS
<1>3. /\ t.at \in {"header", "body"} /\ a # <<>>
      /\ Advance(c, t, t.at, t.len, t.got \o a)
      /\ outbox' = [outbox EXCEPT ![c][k] = w]
      /\ UNCHANGED <<sets, link, inbox, pc, call, serial, todo, out, since, seen>>
  BY <1>0, <1>1 DEF ReadPart, Read, Rest, callVars, historyVars
<1>2. PICK u : /\ u.node = t.node /\ u.serial = t.serial /\ u.msg = t.msg
               /\ u.at = t.at /\ u.len = t.len /\ u.got = t.got \o a
               /\ tasks'[c] = (tasks[c] \ {t}) \cup {u} /\ results' = results
  <2>1. PICK at, len, got : at = t.at /\ len = t.len /\ got = t.got \o a
    OBVIOUS
  <2>2. Advance(c, t, at, len, got) /\ TInv
    BY <1>3, <2>1 DEF AInv, RInv
  <2>3. \E u : /\ u.node = t.node /\ u.serial = t.serial /\ u.msg = t.msg
              /\ u.at = at /\ u.len = len /\ u.got = got
              /\ tasks'[c] = (tasks[c] \ {t}) \cup {u} /\ results' = results
    BY <2>2, Moved
  <2> QED
    BY <2>1, <2>3
<1>4. t \in Goroutine /\ outbox[c][k] \in Seq(Bytes) /\ u.node = k
  BY <1>1, <1>2, Talking
<1>5. /\ outbox[c][k] # <<>>
      /\ u.got \o w = t.got \o outbox[c][k]
  <2>1. (t.got \o a) \o w = t.got \o outbox[c][k] /\ (outbox[c][k] = <<>> => a = <<>>)
    BY <1>0, <1>1, <1>4, ReadSplits, Zenon
  <2> QED
    BY <1>2, <1>3, <2>1, Zenon
<1>6. outbox'[c][k] = w
  BY <1>3, Shapes
<1>7. Exchange(c, u)'
  <2>2. \A m : IsAnswer(c, k, m) => IsAnswer(c, k, m)'
    BY <1>3 DEF IsAnswer
  <2>3. /\ u.at = "header" => u.len = 4 /\ Answering(c, k, t.got \o outbox[c][k], 1)
        /\ u.at = "body" => u.len = 8 /\ Answering(c, k, t.got \o outbox[c][k], 5)
        /\ inbox[c][k] = <<>>
    BY <1>1, <1>2, <1>5, Talking
  <2>4. /\ u.at = "header" => u.len = 4 /\ Answering(c, k, u.got \o outbox[c][k], 1)'
        /\ u.at = "body" => u.len = 8 /\ Answering(c, k, u.got \o outbox[c][k], 5)'
    BY <1>5, <1>6, <2>2, <2>3 DEF Answering
  <2>5. u.msg = Request(c, k)'
    BY <1>1, <1>2, <1>3, Talking DEF Request
  <2>6. inbox'[c][k] = <<>> /\ u.at # "write"
    BY <1>2, <1>3, <2>3
  <2> QED
    BY <1>4, <2>4, <2>5, <2>6 DEF Exchange
<1>8. \A l \in Node : l # t.node => inbox'[c][l] = inbox[c][l] /\ outbox'[c][l] = outbox[c][l]
  BY <1>1, <1>3, Shapes
<1> QED
  BY <1>2, <1>3, <1>7, <1>8, CleanAdvances

\* The reader of a header finds the length of an eight-byte body first.
LEMMA CleanHeader ==
  ASSUME AInv, NEW c \in Client, Clean(c), NEW t \in tasks[c], ReadHeader(c, t)
  PROVE  Clean(c)'
<1>1. PICK k \in Node : k = t.node
  BY Alone
<1>2. PICK a, w, h : a = Arrived(c, t) /\ w = Rest(c, t) /\ h = t.got \o a
  OBVIOUS
<1>3. /\ t.at = "header" /\ Len(a) = t.len - Len(t.got)
      /\ outbox' = [outbox EXCEPT ![c][k] = w]
      /\ UNCHANGED <<sets, link, inbox, call, serial, todo, out, since, seen>>
  BY <1>1, <1>2 DEF ReadHeader, Read, Rest, Missing, callVars, historyVars
<1>4. /\ t \in Goroutine /\ outbox[c][k] \in Seq(Bytes)
      /\ t.len = 4 /\ Answering(c, k, t.got \o outbox[c][k], 1)
  BY <1>1, <1>3, Talking
<1>5. /\ t.got \in Seq(Bytes) /\ a \in Seq(Bytes) /\ w \in Seq(Bytes)
      /\ h \o w = t.got \o outbox[c][k] /\ (outbox[c][k] = <<>> => a = <<>>)
  BY <1>1, <1>2, <1>4, ReadSplits, Zenon
<1>6. h \in Seq(Bytes) /\ Len(h) = 4 /\ h \o w # <<>> /\ (outbox[c][k] = <<>> => t.got # <<>>)
  <2>1. h \in Seq(Bytes) /\ Len(h) = Len(t.got) + Len(a)
    BY <1>2, <1>5, ConcatProperties
  <2>2. Len(t.got) \in Nat /\ Len(a) \in Nat
    BY <1>5, LenProperties
  <2>3. Len(h) = 4
    BY <1>3, <1>4, <2>1, <2>2
  <2>4. h # <<>>
    <3>1. h = <<>> => Len(h) = 0
      OBVIOUS
    <3> QED
      BY <2>3, <3>1
  <2>5. t.got = <<>> /\ a = <<>> => h = <<>>
    BY <1>2, ConcatEqualIffEmpty
  <2>6. h \o w # <<>>
    BY <1>5, <2>1, <2>4, ConcatEqualIffEmpty
  <2> QED
    BY <1>5, <2>1, <2>3, <2>4, <2>5, <2>6
<1>7. PICK m \in Nat : IsAnswer(c, k, m) /\ Prefix(h \o w, Reply(m))
  <2>1. Answering(c, k, h \o w, 1)
    BY <1>4, <1>5, Zenon
  <2>2. PICK m \in Nat : IsAnswer(c, k, m) /\ Prefix(h \o w, SubSeq(Reply(m), 1, 12))
    BY <1>6, <2>1, Zenon DEF Answering
  <2> QED
    BY <2>2, ReplyParts
<1>8. /\ \A q \in 1..4 : h[q] = [at |-> q, count |-> m]
      /\ Len(w) <= 8 /\ Len(w) \in Nat /\ \A q \in 1..Len(w) : w[q] = Reply(m)[q + 4]
  <2>0. PICK R : R = Reply(m)
    OBVIOUS
  <2>1. R \in Seq(Bytes) /\ Len(R) = 12 /\ \A q \in 1..12 : R[q] = [at |-> q, count |-> m]
    BY <2>0, ReplyParts
  <2>2. /\ \A q \in 1..Len(h) : q \in 1..Len(R) /\ h[q] = R[q]
        /\ \A q \in 1..Len(w) : w[q] = R[Len(h) + q]
        /\ Len(h) + Len(w) <= Len(R) /\ Len(w) \in Nat
    <3>1. Prefix(h \o w, R)
      BY <1>7, <2>0
    <3>2. h \in Seq(Bytes) /\ w \in Seq(Bytes) /\ R \in Seq(Bytes)
      BY <1>5, <1>6, <2>1
    <3>3. /\ \A q \in 1..Len(h) : q \in 1..Len(R) /\ h[q] = R[q]
          /\ \A q \in 1..Len(w) : Len(h) + q \in 1..Len(R) /\ w[q] = R[Len(h) + q]
          /\ Len(h) + Len(w) <= Len(R) /\ Len(h) \in Nat /\ Len(w) \in Nat
      BY <3>1, <3>2, PrefixSplits, ZenonT(30)
    <3> QED
      BY <3>3, ZenonT(30)
  <2>3. \A q \in 1..Len(w) : w[q] = R[q + 4]
    BY <1>6, <2>2
  <2>4. \A q \in 1..4 : h[q] = [at |-> q, count |-> m]
    BY <1>6, <2>1, <2>2
  <2> QED
    BY <1>6, <2>0, <2>1, <2>2, <2>3, <2>4
<1>9. Length(h) = 8
  <2>1. Byte(h[1]) = 0 /\ Byte(h[2]) = 0 /\ Byte(h[3]) = 0 /\ Byte(h[4]) = 8
    BY <1>8 DEF Byte
  <2> QED
    BY <2>1 DEF Length
<1>10. Prefix(w, SubSeq(Reply(m), 5, 12))
  <2>1. \A q \in 1..Len(w) : q \in 1..8
    BY <1>8
  <2>2. PICK s, R : R = Reply(m) /\ s = SubSeq(R, 5, 12)
    OBVIOUS
  <2>3. Len(s) = 8 /\ \A q \in 1..8 : s[q] = R[q + 4]
    BY <2>2, ReplyParts
  <2>4. Len(w) <= Len(s) /\ \A q \in 1..Len(w) : w[q] = s[q]
    BY <1>8, <2>1, <2>2, <2>3
  <2> QED
    BY <2>2, <2>4 DEF Prefix
<1>11. Advance(c, t, "body", 8, <<>>) /\ pc' = pc
  <2>1. ~(8 > MaxMsg) /\ 8 # 0
    BY MaxMsgType
  <2>2. PICK length : length = Length(t.got \o Arrived(c, t))
    OBVIOUS
  <2>3. \/ length > MaxMsg /\ Deliver(c, t, FALSE, 0) /\ UNCHANGED pc
        \/ length = 0 /\ Finish(c, t, <<>>)
        \/ length \in 1..MaxMsg /\ Advance(c, t, "body", length, <<>>) /\ UNCHANGED pc
    BY <2>2, Zenon DEF ReadHeader
  <2>4. length = 8
    BY <1>2, <1>9, <2>2
  <2> QED
    BY <2>1, <2>3, <2>4
<1>12. PICK u : /\ u.node = t.node /\ u.serial = t.serial /\ u.msg = t.msg
                /\ u.at = "body" /\ u.len = 8 /\ u.got = <<>>
                /\ tasks'[c] = (tasks[c] \ {t}) \cup {u} /\ results' = results
  BY <1>11, Moved DEF AInv, RInv
<1>13. u.node = k /\ u.got \o w = w
  BY <1>1, <1>5, <1>12, ConcatEmptySeq
<1>14. outbox'[c][k] = w /\ inbox'[c][k] = <<>>
  <2>1. inbox[c][k] = <<>>
    BY <1>1, <1>6, Talking
  <2> QED
    BY <1>3, <2>1, Shapes
<1>15. Exchange(c, u)'
  <2>1. IsAnswer(c, k, m)'
    BY <1>3, <1>7, <1>11 DEF IsAnswer
  <2>2. Answering(c, k, w, 5)'
    BY <1>10, <2>1 DEF Answering
  <2>3. u.msg = Request(c, k)'
    BY <1>1, <1>3, <1>12, Talking DEF Request
  <2> QED
    BY <1>12, <1>13, <1>14, <2>2, <2>3 DEF Exchange
<1>16. \A l \in Node : l # t.node => inbox'[c][l] = inbox[c][l] /\ outbox'[c][l] = outbox[c][l]
  BY <1>1, <1>3, Shapes
<1> QED
  BY <1>3, <1>11, <1>12, <1>15, <1>16, CleanAdvances

\* The reader of a body finds the count that its node sent.
LEMMA CleanBody ==
  ASSUME AInv, NEW c \in Client, Clean(c), NEW t \in tasks[c], ReadBody(c, t)
  PROVE  Clean(c)'
<1>1. PICK k \in Node : k = t.node
  BY Alone
<1>2. PICK a, w, b : a = Arrived(c, t) /\ w = Rest(c, t) /\ b = t.got \o a
  OBVIOUS
<1>3. /\ t.at = "body" /\ Len(a) = t.len - Len(t.got) /\ Finish(c, t, b)
      /\ outbox' = [outbox EXCEPT ![c][k] = w]
      /\ UNCHANGED <<sets, link, inbox, call, serial, todo, out, since, seen>>
  BY <1>1, <1>2 DEF ReadBody, Read, Rest, Missing, callVars, historyVars
<1>4. /\ t \in Goroutine /\ outbox[c][k] \in Seq(Bytes) /\ t.msg = Request(c, k)
      /\ t.len = 8 /\ Answering(c, k, t.got \o outbox[c][k], 5)
  BY <1>1, <1>3, Talking
<1>5. /\ t.got \in Seq(Bytes) /\ a \in Seq(Bytes) /\ w \in Seq(Bytes)
      /\ b \o w = t.got \o outbox[c][k]
  BY <1>1, <1>2, <1>4, ReadSplits, Zenon
<1>6. b \in Seq(Bytes) /\ Len(b) = 8 /\ b \o w # <<>>
  <2>1. b \in Seq(Bytes) /\ Len(b) = Len(t.got) + Len(a)
    BY <1>2, <1>5, ConcatProperties
  <2>2. Len(t.got) \in Nat /\ Len(a) \in Nat
    BY <1>5, LenProperties
  <2>3. Len(b) = 8
    BY <1>3, <1>4, <2>1, <2>2
  <2>4. b # <<>>
    <3>1. b = <<>> => Len(b) = 0
      OBVIOUS
    <3> QED
      BY <2>3, <3>1
  <2>5. b \o w # <<>>
    <3>1. b \in Seq(Bytes) /\ w \in Seq(Bytes)
      BY <1>5, <2>1
    <3>2. b \o w = <<>> => b = <<>>
      BY <3>1, ConcatEqualIffEmpty, SMT
    <3> QED
      BY <2>4, <3>2
  <2> QED
    BY <2>1, <2>3, <2>5
<1>7. PICK m \in Nat : IsAnswer(c, k, m) /\ Prefix(b \o w, SubSeq(Reply(m), 5, 12))
  <2>1. Answering(c, k, b \o w, 5)
    BY <1>4, <1>5, Zenon
  <2> QED
    BY <1>6, <2>1, Zenon DEF Answering
<1>8. b = SubSeq(Reply(m), 5, 12) /\ w = <<>> /\ b[1] = [at |-> 5, count |-> m]
  <2>0. PICK s, R : R = Reply(m) /\ s = SubSeq(R, 5, 12)
    OBVIOUS
  <2>1. /\ s \in Seq(Bytes) /\ Len(s) = 8 /\ \A q \in 1..8 : s[q] = R[q + 4]
        /\ \A q \in 1..12 : R[q] = [at |-> q, count |-> m]
    BY <2>0, ReplyParts
  <2>2. /\ \A q \in 1..Len(b) : b[q] = s[q]
        /\ Len(b) + Len(w) <= Len(s) /\ Len(w) \in Nat
    <3>1. Prefix(b \o w, s)
      BY <1>7, <2>0
    <3>2. b \in Seq(Bytes) /\ w \in Seq(Bytes) /\ s \in Seq(Bytes)
      BY <1>5, <1>6, <2>1
    <3>3. /\ \A q \in 1..Len(b) : q \in 1..Len(s) /\ b[q] = s[q]
          /\ \A q \in 1..Len(w) : Len(b) + q \in 1..Len(s) /\ w[q] = s[Len(b) + q]
          /\ Len(b) + Len(w) <= Len(s) /\ Len(b) \in Nat /\ Len(w) \in Nat
      BY <3>1, <3>2, PrefixSplits, ZenonT(30)
    <3> QED
      BY <3>3, ZenonT(30)
  <2>3. b = s
    BY <1>6, <2>1, <2>2, SeqEqual
  <2>4. w = <<>>
    <3>1. Len(w) = 0
      BY <1>6, <2>1, <2>2
    <3> QED
      BY <1>5, <3>1, EmptySeq
  <2>5. 1 \in 1..8 /\ 5 \in 1..12 /\ 1 + 4 = 5
    OBVIOUS
  <2>6. b[1] = [at |-> 5, count |-> m]
    BY <2>1, <2>3, <2>5
  <2> QED
    BY <2>0, <2>3, <2>4, <2>6
<1>9. \E n \in Nat : Deliver(c, t, TRUE, n) /\ IsAnswer(c, k, n) /\ pc' = pc
  <2>1. t.msg.op = call[c].op
    BY <1>4 DEF Request, Message
  <2>2. CASE t.msg.op = "load"
    <3>1. Deliver(c, t, TRUE, 0) /\ pc' = pc
      BY <1>3, <2>2 DEF Finish
    <3>2. IsAnswer(c, k, 0)
      BY <1>7, <2>1, <2>2 DEF IsAnswer
    <3> QED
      BY <3>1, <3>2
  <2>3. CASE t.msg.op # "load"
    <3>1. SubSeq(b, 1, 8) = b
      BY <1>6
    <3>3. PICK s : s = SubSeq(Reply(m), 5, 12)
      OBVIOUS
    <3>4. b = s /\ b[1].count = m /\ ~(Len(b) < 8)
      BY <1>6, <1>8, <3>3
    <3>2. Deliver(c, t, TRUE, m) /\ pc' = pc
      <4>1. \/ /\ Len(b) < 8
               /\ pc' = [pc EXCEPT ![c] = "panicked"]
               /\ tasks' = [tasks EXCEPT ![c] = {}] /\ UNCHANGED results
            \/ /\ \E n \in IF SubSeq(b, 1, 8) = SubSeq(Reply(SubSeq(b, 1, 8)[1].count), 5, 12)
                            THEN {SubSeq(b, 1, 8)[1].count} ELSE Misread :
                     Deliver(c, t, TRUE, n)
               /\ UNCHANGED pc
        BY <1>3, <2>3 DEF Finish
      <4>2. SubSeq(b, 1, 8)[1].count = m /\ SubSeq(b, 1, 8) = SubSeq(Reply(m), 5, 12)
        BY <3>1, <3>3, <3>4, Zenon
      <4>3. PICK n \in {m} : Deliver(c, t, TRUE, n) /\ pc' = pc
        BY <3>4, <4>1, <4>2, Zenon
      <4> QED
        BY <4>3
    <3> QED
      BY <1>7, <3>2
  <2> QED
    BY <2>2, <2>3
<1>10. inbox[c][k] = <<>>
  BY <1>1, <1>3, Talking
<1>11. PICK n \in Nat : Deliver(c, t, TRUE, n) /\ IsAnswer(c, k, n) /\ pc' = pc
  BY <1>9
<1>12. outbox' = [outbox EXCEPT ![c][k] = <<>>] /\ inbox' = inbox
  BY <1>3, <1>8
<1> QED
  BY <1>1, <1>3, <1>10, <1>11, <1>12, CleanDelivers

\* A connection that ends leaves nothing behind.
LEMMA CleanFail ==
  ASSUME AInv, NEW c \in Client, Clean(c), NEW t \in tasks[c], ReadFails(c, t)
  PROVE  Clean(c)'
<1>1. PICK k \in Node : k = t.node
  BY Alone
<1>2. PICK a, w : a = Arrived(c, t) /\ w = Rest(c, t)
  OBVIOUS
<1>3. /\ link[c][k] = "broken" /\ a = <<>> /\ Missing(t) > 0
      /\ Deliver(c, t, FALSE, 0) /\ outbox' = [outbox EXCEPT ![c][k] = w]
      /\ UNCHANGED <<sets, link, inbox, pc, call, serial, todo, out, since, seen>>
  BY <1>1, <1>2 DEF ReadFails, Read, Rest, callVars, historyVars
<1>4. t \in Goroutine /\ outbox[c][k] \in Seq(Bytes)
  BY <1>1, Talking
<1>5. w = <<>>
  <2>1. /\ (a = <<>> /\ Missing(t) > 0 => outbox[c][k] = <<>>)
        /\ (outbox[c][k] = <<>> => w = <<>>)
    BY <1>1, <1>2, <1>4, ReadSplits, Zenon
  <2> QED
    BY <1>3, <2>1
<1>6. inbox[c][k] = <<>>
  BY <1>1, <1>3, Talking
<1> QED
  BY <1>1, <1>3, <1>5, <1>6, CleanDelivers

LEMMA CleanWrite ==
  ASSUME AInv, NEW c \in Client, Clean(c), NEW t \in tasks[c], Write(c, t)
  PROVE  Clean(c)'
<1>1. PICK k \in Node : k = t.node
  BY Alone
<1>2. /\ t.at = "write" /\ TInv
      /\ UNCHANGED <<sets, link, outbox, pc, call, serial, todo, out, since, seen>>
  BY DEF Write, callVars, historyVars, AInv, RInv
<1>3. Exchange(c, t) /\ inbox[c][k] = <<>> /\ outbox[c][k] = <<>>
  BY <1>1, <1>2, Alone, Talking
<1>4. outbox' = [outbox EXCEPT ![c][k] = <<>>] /\ outbox'[c][k] = <<>>
  BY <1>2, <1>3, Shapes
<1>5. CASE /\ Advance(c, t, "header", 4, <<>>)
           /\ \/ inbox' = inbox
              \/ link[c][k] = "open" /\ inbox' = [inbox EXCEPT ![c][k] = Append(@, t.msg)]
  <2>1. PICK u : /\ u.node = t.node /\ u.serial = t.serial /\ u.msg = t.msg
                 /\ u.at = "header" /\ u.len = 4 /\ u.got = <<>>
                 /\ tasks'[c] = (tasks[c] \ {t}) \cup {u} /\ results' = results
    BY <1>2, <1>5, Moved
  <2>2. PICK i : i = <<t.msg>>
    OBVIOUS
  <2>3. /\ inbox'[c][k] = <<>> \/ (inbox'[c][k] = i /\ link'[c][k] = "open")
        /\ \A l \in Node : l # k => inbox'[c][l] = inbox[c][l]
    <3>1. CASE inbox' = inbox
      BY <1>3, <3>1
    <3>2. CASE link[c][k] = "open" /\ inbox' = [inbox EXCEPT ![c][k] = Append(@, t.msg)]
      <4>1. inbox' = [inbox EXCEPT ![c][k] = i]
        BY <1>3, <2>2, <3>2
      <4> QED
        BY <1>2, <3>2, <4>1, Shapes
    <3> QED
      BY <1>5, <3>1, <3>2
  <2>4. u.msg = Request(c, k)'
    BY <1>1, <1>2, <1>3, <2>1 DEF Exchange, Request
  <2>5. Exchange(c, u)'
    <3>1. u.got \o outbox'[c][k] = <<>>
      BY <1>4, <2>1
    <3>2. Answering(c, k, u.got \o outbox[c][k], 1)'
      BY <3>1 DEF Answering
    <3> QED
      BY <1>1, <1>4, <2>1, <2>2, <2>3, <2>4, <3>1, <3>2 DEF Exchange
  <2> QED
    BY <1>1, <1>2, <2>1, <2>3, <2>5, CleanAdvances
<1>6. CASE link[c][k] = "broken" /\ inbox' = inbox /\ Deliver(c, t, FALSE, 0)
  BY <1>1, <1>2, <1>3, <1>4, <1>6, CleanDelivers
<1>7. \/ /\ link[c][k] = "open" /\ Advance(c, t, "header", 4, <<>>)
         /\ inbox' = [inbox EXCEPT ![c][k] = Append(@, t.msg)]
      \/ /\ link[c][k] = "broken" /\ inbox' = inbox
         /\ Advance(c, t, "header", 4, <<>>) \/ Deliver(c, t, FALSE, 0)
  BY <1>1 DEF Write
<1> QED
  BY <1>5, <1>6, <1>7

LEMMA CleanRun ==
  ASSUME AInv, NEW c \in Client, Clean(c), Run(c)
  PROVE  Clean(c)'
BY CleanWrite, CleanPart, CleanHeader, CleanBody, CleanFail DEF Run

-----------------------------------------------------------------------------
(* The goroutines of a client that a connection has failed *)

LEMMA DoomedAdvances ==
  ASSUME AInv, NEW c \in Client, NEW k \in Node, DoomedBy(c, k), NEW t \in tasks[c],
         NEW at, NEW len, NEW got, Advance(c, t, at, len, got),
         Busy(c) /\ t \in Current(c) /\ t.node = k =>
           at = "header" /\ len = 4 /\ got = <<>>,
         outbox'[c][k] = <<>>, UNCHANGED <<link, pc, serial, todo, out>>
  PROVE  DoomedBy(c, k)'
<1>1. PICK u : /\ u.node = t.node /\ u.serial = t.serial
               /\ u.at = at /\ u.len = len /\ u.got = got
               /\ tasks'[c] = (tasks[c] \ {t}) \cup {u} /\ results' = results
  BY Moved DEF AInv, RInv
<1>2. \/ t \notin Current(c) /\ Current(c)' = Current(c)
      \/ t \in Current(c) /\ Current(c)' = (Current(c) \ {t}) \cup {u}
  BY <1>1, CurrentAdvances
<1>3. Busy(c) => \A v \in Current(c)' : v.node = k =>
                    v.at = "write" \/ (v.at = "header" /\ v.len = 4 /\ v.got = <<>>)
  BY <1>1, <1>2 DEF DoomedBy
<1>4. (\E v \in Current(c) : v.node = k) => \E v \in Current(c)' : v.node = k
  BY <1>1, <1>2
<1> QED
  BY <1>1, <1>3, <1>4 DEF DoomedBy, Busy

LEMMA DoomedDelivers ==
  ASSUME AInv, NEW c \in Client, NEW k \in Node, DoomedBy(c, k), NEW t \in tasks[c],
         NEW ok \in BOOLEAN, NEW m, Deliver(c, t, ok, m),
         ok /\ t.node = k => ~(Busy(c) /\ t \in Current(c)),
         outbox'[c][k] = <<>>, UNCHANGED <<link, pc, serial, todo, out>>
  PROVE  DoomedBy(c, k)'
<1> DEFINE r == [node |-> t.node, ok |-> ok, count |-> m]
           rs == results'[c]
<1>1. /\ Current(c)' = Current(c) \ {t}
      /\ t \in Current(c) /\ Busy(c) => rs = Append(results[c], r)
      /\ t \notin Current(c) \/ ~Busy(c) => rs = results[c]
  BY CurrentDelivers DEF AInv, RInv, Busy
<1>2. r.node = t.node /\ r.ok = ok /\ results[c] \in Seq(Result)
  BY Shapes
<1> HIDE DEF r, rs
<1>3. CASE t \in Current(c) /\ Busy(c)
  <2>1. /\ Len(rs) = Len(results[c]) + 1 /\ Len(results[c]) \in Nat
        /\ rs[Len(results[c]) + 1] = r
        /\ \A q \in 1..Len(results[c]) : rs[q] = results[c][q]
    <3>1. rs = Append(results[c], r)
      BY <1>1, <1>3
    <3> QED
      BY <1>2, <3>1
  <2>2. \A q \in 1..Len(rs) : \/ q \in 1..Len(results[c]) /\ rs[q] = results[c][q]
                              \/ rs[q] = r
    BY <2>1
  <2>3. \A q \in 1..Len(rs) : rs[q].node = k => ~rs[q].ok
    BY <1>2, <1>3, <2>2 DEF DoomedBy
  <2>4. pc[c] = "gathering" => \/ \E v \in Current(c)' : v.node = k
                               \/ \E q \in 1..Len(rs) : rs[q].node = k
    <3>1. ASSUME t.node = k PROVE \E q \in 1..Len(rs) : rs[q].node = k
      <4>1. Len(results[c]) + 1 \in 1..Len(rs)
        BY <2>1
      <4> QED
        BY <1>2, <2>1, <3>1, <4>1
    <3>2. ASSUME NEW v \in Current(c), v.node = k, t.node # k PROVE \E w \in Current(c)' : w.node = k
      BY <1>1, <3>2
    <3>3. ASSUME NEW q \in 1..Len(results[c]), results[c][q].node = k
          PROVE  \E p \in 1..Len(rs) : rs[p].node = k
      <4>1. q \in 1..Len(rs)
        BY <2>1
      <4> QED
        BY <2>1, <3>3, <4>1
    <3> QED
      BY <3>1, <3>2, <3>3 DEF DoomedBy
  <2> QED
    BY <1>1, <2>3, <2>4 DEF DoomedBy, Busy, rs
<1>4. CASE t \notin Current(c) \/ ~Busy(c)
  <2>1. Busy(c) => Current(c)' = Current(c)
    BY <1>1, <1>4
  <2> QED
    BY <1>1, <1>4, <2>1 DEF DoomedBy, Busy, rs
<1> QED
  BY <1>3, <1>4

\* A Read of the connection that failed finds nothing.
LEMMA DoomedReads ==
  ASSUME AInv, NEW c \in Client, NEW k \in Node, DoomedBy(c, k), NEW t \in tasks[c], Read(c, t)
  PROVE  /\ outbox'[c][k] = <<>> /\ UNCHANGED <<link, serial, todo, out>>
         /\ t.node = k => Arrived(c, t) = <<>>
<1>1. PICK l \in Node : l = t.node
  BY Shapes DEF Goroutine
<1>2. PICK a, w : a = Arrived(c, t) /\ w = Rest(c, t)
  OBVIOUS
<1>3. outbox' = [outbox EXCEPT ![c][l] = w] /\ UNCHANGED <<link, serial, todo, out>>
  BY <1>1, <1>2 DEF Read, Rest, callVars
<1>4. outbox[c][l] = <<>> => a = <<>> /\ w = <<>>
  <2>1. t \in Goroutine /\ outbox[c][t.node] \in Seq(Bytes)
    BY <1>1, Shapes
  <2> QED
    BY <1>1, <1>2, <2>1, ReadSplits, Zenon
<1>5. outbox[c][k] = <<>>
  BY DEF DoomedBy
<1>6. outbox'[c][k] = <<>>
  <2>1. CASE k = l
    BY <1>3, <1>4, <1>5, <2>1, Shapes
  <2>2. CASE k # l
    BY <1>3, <1>5, <2>2, Shapes
  <2> QED
    BY <2>1, <2>2
<1> QED
  BY <1>1, <1>2, <1>3, <1>4, <1>5, <1>6

\* A goroutine that ends with a reply has not read it there.
LEMMA DoomedFinishes ==
  ASSUME AInv, NEW c \in Client, NEW k \in Node, DoomedBy(c, k), NEW t \in tasks[c],
         NEW body, Finish(c, t, body), ~(Busy(c) /\ t \in Current(c) /\ t.node = k),
         outbox'[c][k] = <<>>, UNCHANGED <<link, serial, todo, out>>
  PROVE  DoomedBy(c, k)'
<1>1. \/ pc' = pc /\ \E n : Deliver(c, t, TRUE, n)
      \/ pc' = [pc EXCEPT ![c] = "panicked"]
  BY DEF Finish
<1>2. CASE pc' = pc /\ \E n : Deliver(c, t, TRUE, n)
  <2>1. PICK n : Deliver(c, t, TRUE, n)
    BY <1>2
  <2>2. PICK ok \in BOOLEAN : ok = TRUE
    OBVIOUS
  <2>3. Deliver(c, t, ok, n) /\ pc' = pc
    BY <1>2, <2>1, <2>2
  <2> QED
    BY <2>3, DoomedDelivers
<1>3. CASE pc' = [pc EXCEPT ![c] = "panicked"]
  <2>1. pc'[c] = "panicked"
    BY <1>3, Shapes
  <2> QED
    BY <2>1 DEF DoomedBy, Busy
<1> QED
  BY <1>1, <1>2, <1>3

\* The connection that failed delivers nothing but its failure: what a goroutine still
\* finds it finds elsewhere.
LEMMA DoomedRun ==
  ASSUME AInv, NEW c \in Client, NEW k \in Node, DoomedBy(c, k), Run(c)
  PROVE  DoomedBy(c, k)'
<1>1. PICK t \in tasks[c] :
        Write(c, t) \/ ReadPart(c, t) \/ ReadHeader(c, t) \/ ReadBody(c, t) \/ ReadFails(c, t)
  BY DEF Run
<1>2. Busy(c) /\ t \in Current(c) /\ t.node = k =>
        t.at = "write" \/ (t.at = "header" /\ t.len = 4 /\ t.got = <<>>)
  BY DEF DoomedBy
<1>3. ASSUME NEW ok \in BOOLEAN, NEW n, Deliver(c, t, ok, n), ~ok,
             outbox'[c][k] = <<>>, UNCHANGED <<link, pc, serial, todo, out>>
      PROVE  DoomedBy(c, k)'
  BY <1>3, DoomedDelivers
<1>4. CASE Write(c, t)
  <2>1. /\ outbox'[c][k] = <<>> /\ UNCHANGED <<link, pc, serial, todo, out>>
        /\ Advance(c, t, "header", 4, <<>>) \/ Deliver(c, t, FALSE, 0)
    BY <1>4 DEF Write, callVars, DoomedBy
  <2> QED
    BY <1>3, <2>1, DoomedAdvances
<1>5. CASE ReadPart(c, t)
  <2>1. Read(c, t) /\ Arrived(c, t) # <<>> /\ pc' = pc
    BY <1>5 DEF ReadPart
  <2>2. PICK at, len, got : Advance(c, t, at, len, got)
    BY <1>5 DEF ReadPart
  <2>3. outbox'[c][k] = <<>> /\ UNCHANGED <<link, serial, todo, out>> /\ t.node # k
    BY <2>1, DoomedReads
  <2> QED
    BY <2>1, <2>2, <2>3, DoomedAdvances
<1>6. CASE ReadHeader(c, t)
  <2>1. Read(c, t) /\ t.at = "header" /\ Len(Arrived(c, t)) = Missing(t)
    BY <1>6 DEF ReadHeader
  <2>2. /\ outbox'[c][k] = <<>> /\ UNCHANGED <<link, serial, todo, out>>
        /\ t.node = k => Arrived(c, t) = <<>>
    BY <2>1, DoomedReads
  <2>3. ~(Busy(c) /\ t \in Current(c) /\ t.node = k)
    <3>1. ASSUME Busy(c), t \in Current(c), t.node = k PROVE FALSE
      <4>1. t.len = 4 /\ t.got = <<>> /\ Arrived(c, t) = <<>>
        BY <1>2, <2>1, <2>2, <3>1
      <4>2. Missing(t) = 4 /\ Len(Arrived(c, t)) = 0
        BY <4>1 DEF Missing
      <4> QED
        BY <2>1, <4>2
    <3> QED
      BY <3>1
  <2>4. \/ Deliver(c, t, FALSE, 0) /\ pc' = pc
        \/ Finish(c, t, <<>>)
        \/ pc' = pc /\ \E len : Advance(c, t, "body", len, <<>>)
    BY <1>6, Zenon DEF ReadHeader
  <2> QED
    BY <1>3, <2>2, <2>3, <2>4, DoomedFinishes, DoomedAdvances
<1>7. CASE ReadBody(c, t)
  <2>1. Read(c, t) /\ t.at = "body" /\ Finish(c, t, t.got \o Arrived(c, t))
    BY <1>7 DEF ReadBody
  <2>2. outbox'[c][k] = <<>> /\ UNCHANGED <<link, serial, todo, out>>
    BY <2>1, DoomedReads
  <2>3. PICK body : Finish(c, t, body)
    BY <2>1
  <2> QED
    BY <1>2, <2>1, <2>2, <2>3, DoomedFinishes
<1>8. CASE ReadFails(c, t)
  <2>1. Read(c, t) /\ Deliver(c, t, FALSE, 0) /\ pc' = pc
    BY <1>8 DEF ReadFails
  <2>2. outbox'[c][k] = <<>> /\ UNCHANGED <<link, serial, todo, out>>
    BY <2>1, DoomedReads
  <2> QED
    BY <1>3, <2>1, <2>2
<1> QED
  BY <1>1, <1>4, <1>5, <1>6, <1>7, <1>8

LEMMA RunAnswers ==
  ASSUME AInv, RInv', Views', History', NEW c \in Client, Run(c)
  PROVE  AInv'
<1>1. PICK t \in tasks[c] :
        Write(c, t) \/ ReadPart(c, t) \/ ReadHeader(c, t) \/ ReadBody(c, t) \/ ReadFails(c, t)
  BY DEF Run
<1>2. /\ UNCHANGED <<sets, link, call, serial, todo, out, since, seen>>
      /\ inbox' = inbox \/ inbox' = [inbox EXCEPT ![c][t.node] = Append(@, t.msg)]
      /\ \/ pc' = pc /\ \E at, len, got : Advance(c, t, at, len, got)
         \/ pc' = pc /\ \E ok, v : Deliver(c, t, ok, v)
         \/ /\ pc' = [pc EXCEPT ![c] = "panicked"]
            /\ tasks' = [tasks EXCEPT ![c] = {}] /\ results' = results
  BY <1>1, RunCases DEF callVars, historyVars
<1>3. outbox' = outbox \/ \E w : outbox' = [outbox EXCEPT ![c][t.node] = w]
  BY <1>1 DEF Write, ReadPart, ReadHeader, ReadBody, ReadFails, Read
<1>4. ASSUME NEW d \in Client, d # c
      PROVE  UNCHANGED <<tasks[d], results[d], pc[d], inbox[d], outbox[d]>>
  <2>1. pc'[d] = pc[d]
    BY <1>2, <1>4, Shapes
  <2>2. inbox'[d] = inbox[d] /\ outbox'[d] = outbox[d]
    BY <1>2, <1>3, <1>4, Shapes
  <2>3. tasks'[d] = tasks[d] /\ results'[d] = results[d]
    <3>1. ASSUME NEW ok, NEW v, Deliver(c, t, ok, v)
          PROVE  tasks'[d] = tasks[d] /\ results'[d] = results[d]
      BY <1>4, <3>1, Shapes DEF Deliver
    <3>2. ASSUME NEW at, NEW len, NEW got, Advance(c, t, at, len, got)
          PROVE  tasks'[d] = tasks[d] /\ results'[d] = results[d]
      BY <1>4, <3>2, Shapes DEF Advance
    <3>3. tasks' = [tasks EXCEPT ![c] = {}] => tasks'[d] = tasks[d]
      BY <1>4, Shapes
    <3> QED
      BY <1>2, <3>1, <3>2, <3>3
  <2> QED
    BY <2>1, <2>2, <2>3
<1>5. Clean(c)' \/ Doomed(c)'
  <2>1. CASE Clean(c)
    BY <2>1, CleanRun
  <2>2. CASE Doomed(c)
    BY <2>2, DoomedRun DEF Doomed
  <2> QED
    BY <2>1, <2>2 DEF AInv
<1>6. \A d \in Client \ {c} :
        UNCHANGED <<tasks[d], serial[d], inbox[d], outbox[d], link[d], results[d], call[d],
                    pc[d], out[d], todo[d], since[d], seen[d]>>
  BY <1>2, <1>4
<1> QED
  BY <1>2, <1>5, <1>6, OthersKept

-----------------------------------------------------------------------------
(* The steps together *)

LEMMA StepAnswers == AInv /\ [Next]_vars => AInv'
<1> SUFFICES ASSUME AInv, [Next]_vars PROVE AInv'
  OBVIOUS
<1>1. RInv' /\ Views' /\ History'
  BY StepReaders, StepViews, StepHistory DEF AInv
<1>2. ASSUME NEW c \in Client, Step(c) PROVE AInv'
  BY <1>1, <1>2, LoadNextAnswers, LoadAckAnswers, CollectAnswers, RunAnswers, TakenAnswers DEF Step
<1>3. ASSUME NEW c \in Client, NEW r \in Call, BeginLoad(c, r) \/ Gather(c, r) PROVE AInv'
  BY <1>1, <1>3, BeginLoadAnswers, GatherAnswers
<1>4. ASSUME NEW k \in Node, Restart(k), UNCHANGED <<pc, callVars, todo, tasks, results, out, historyVars>>
      PROVE  AInv'
  <2>1. UNCHANGED <<sets, link, inbox, outbox, pc, call, serial, todo, tasks, results, out, since, seen>>
    BY <1>4 DEF Restart, callVars, historyVars
  <2> QED
    BY <1>1, <2>1, StillAnswers
<1>5. CASE Network
  BY <1>1, <1>4, <1>5, LoseAnswers DEF Network
<1>6. CASE UNCHANGED vars
  <2>1. UNCHANGED <<sets, link, inbox, outbox, pc, call, serial, todo, tasks, results, out, since, seen>>
    BY <1>6 DEF vars, nodeVars, callVars, historyVars
  <2> QED
    BY <1>1, <2>1, StillAnswers
<1> QED
  BY <1>1, <1>2, <1>3, <1>5, <1>6, DialAnswers, ServeAnswers, ServeLateAnswers, DeathAnswers
  DEF Next

\* A count that a query returns without an error is put together of whole versions,
\* one per node and name, none older than the last load that ended well: whatever
\* loads it overlaps with, whatever nodes die, whatever requests of connections that
\* were closed still arrive, whatever goroutines of a failed gather still read, and
\* whoever owns the shards (sharded.go:68-116, cluster.go:135-157).
THEOREM AnswersAreExact == Spec => []AnswersExact
<1>1. AInv => AnswersExact
  <2> SUFFICES ASSUME AInv, NEW c \in Client, pc[c] = "returned", call[c].op # "load", out[c].ok
               PROVE  out[c].count \in Counts(call[c], Home, seen[c])
    BY DEF AnswersExact
  <2>1. ~Doomed(c)
    BY DEF Doomed, DoomedBy
  <2> QED
    BY <2>1 DEF AInv, Clean, Exact
<1> QED
  BY InitAnswers, StepAnswers, <1>1, PTL DEF Spec
=============================================================================
