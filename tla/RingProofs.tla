----------------------------- MODULE RingProofs -----------------------------
(***************************************************************************)
(* Ring for any nodes, ids and hash functions: every point is of an active *)
(* node and Route is exact.  For hash functions without a common point the *)
(* points are those of the active nodes, and changes of the ring move only *)
(* the ids of the node that comes or goes.                                 *)
(***************************************************************************)
EXTENDS Ring, FiniteSetTheorems, WellFoundedInduction, TLAPS

\* A non-empty set of naturals has a least member.
LEMMA LeastNat ==
  ASSUME NEW T, T \subseteq Nat, T # {}
  PROVE  \E m \in T : \A k \in T : m <= k
<1> DEFINE R == {ss \in Nat \X Nat : ss[1] < ss[2]}
<1>1. IsWellFoundedOn(R, Nat)
  BY NatLessThanWellFounded, Zenon DEF OpToRel
<1>2. \E m \in T : \A k \in T : ~(<<k, m>> \in R)
  <2> HIDE DEF R
  <2> QED
    BY <1>1, WFMin
<1>3. PICK m \in T : \A k \in T : ~(<<k, m>> \in R)
  BY <1>2
<1>4. ASSUME NEW k \in T PROVE m <= k
  <2>1. k \in Nat /\ m \in Nat
    OBVIOUS
  <2>2. ~(k < m)
    BY <1>3, <2>1
  <2> QED
    BY <2>1, <2>2
<1> QED
  BY <1>4

\* sort.Search returns the first index at or after a position, or one more
\* than the length (ring.go:82-84).
LEMMA SearchFacts ==
  ASSUME NEW s \in Seq(Nat), NEW x \in Nat
  PROVE  /\ Search(s, x) \in 1..Len(s) + 1
         /\ Search(s, x) <= Len(s) => s[Search(s, x)] >= x
         /\ \A k \in 1..Search(s, x) - 1 : s[k] < x
<1> DEFINE T == {i \in 1..Len(s) : s[i] >= x}
<1>1. \E i \in 1..Len(s) + 1 :
        /\ i <= Len(s) => s[i] >= x
        /\ \A k \in 1..i - 1 : s[k] < x
  <2>1. CASE T = {}
    <3>1. \A k \in 1..Len(s) : s[k] < x
      BY <2>1
    <3> QED
      BY <3>1
  <2>2. CASE T # {}
    <3>1. T \subseteq Nat
      OBVIOUS
    <3>2. \E m \in T : \A k \in T : m <= k
      <4> HIDE DEF T
      <4> QED
        BY <2>2, <3>1, LeastNat
    <3>3. PICK m \in T : \A k \in T : m <= k
      BY <3>2
    <3>4. m \in 1..Len(s) /\ s[m] >= x
      OBVIOUS
    <3>5. ASSUME NEW k \in 1..m - 1
          PROVE  s[k] < x
      <4>1. k \in 1..Len(s) /\ ~(m <= k)
        BY <3>4
      <4>2. k \notin T
        BY <3>3, <4>1
      <4>3. s[k] \in Nat
        BY <4>1
      <4> QED
        BY <4>1, <4>2, <4>3
    <3> QED
      BY <3>4, <3>5
  <2> QED
    BY <2>1, <2>2
<1> QED
  BY <1>1 DEF Search

\* The binary search and the wrap-around find the successor of a position.
LEMMA SearchFindsSuccessor ==
  ASSUME NEW P, P # {}, NEW s \in Seq(Nat), IsOrder(s, P), NEW x \in Nat
  PROVE  LET i == Search(s, x)
             k == IF i > Len(s) THEN 1 ELSE i
         IN  k \in DOMAIN s /\ s[k] \in P /\ IsSuccessor(s[k], x, P)
<1> DEFINE i == Search(s, x)
           k == IF i > Len(s) THEN 1 ELSE i
<1>1. i \in 1..Len(s) + 1 /\ (i <= Len(s) => s[i] >= x) /\ \A l \in 1..i - 1 : s[l] < x
  BY SearchFacts
<1>2. Len(s) \in Nat \ {0}
  BY DEF IsOrder
<1>3. k \in 1..Len(s)
  BY <1>1, <1>2
<1>4. s[k] \in P
  BY <1>3 DEF IsOrder
<1>5. ASSUME NEW q \in P
      PROVE  IF s[k] >= x THEN q < x \/ q >= s[k] ELSE q < x /\ q >= s[k]
  <2>1. PICK l \in 1..Len(s) : s[l] = q
    BY DEF IsOrder
  <2>2. s[k] \in Nat /\ s[l] \in Nat
    BY <1>3
  <2>3. l < k => s[l] < s[k]
    BY <1>3 DEF IsOrder
  <2>4. k < l => s[k] < s[l]
    BY <1>3 DEF IsOrder
  <2>5. CASE i > Len(s)
    BY <1>1, <1>3, <2>1, <2>2, <2>3, <2>4, <2>5, SMTT(30)
  <2>6. CASE i <= Len(s)
    BY <1>1, <1>3, <2>1, <2>2, <2>3, <2>4, <2>6
  <2> QED
    BY <1>1, <2>5, <2>6
<1> QED
  BY <1>3, <1>4, <1>5 DEF IsSuccessor

\* A position has one successor.
LEMMA OneSuccessor ==
  ASSUME NEW P \in SUBSET Nat, NEW x \in Nat, NEW p, NEW q,
         IsSuccessor(p, x, P), IsSuccessor(q, x, P)
  PROVE  p = q
<1>1. p \in Nat /\ q \in Nat
  BY DEF IsSuccessor
<1> QED
  BY <1>1 DEF IsSuccessor

\* A ring with points has a successor for every position.
LEMMA SuccessorExists ==
  ASSUME NEW P, P \subseteq Nat, P # {}, NEW x \in Nat
  PROVE  \E p \in P : IsSuccessor(p, x, P)
<1> DEFINE T == {q \in P : q >= x}
<1>1. CASE T = {}
  <2>1. PICK p \in P : \A q \in P : p <= q
    BY LeastNat
  <2>2. \A q \in P : q \in Nat /\ q < x
    BY <1>1
  <2> QED
    BY <2>1, <2>2 DEF IsSuccessor
<1>2. CASE T # {}
  <2>1. T \subseteq Nat
    OBVIOUS
  <2>2. \E p \in T : \A q \in T : p <= q
    <3> HIDE DEF T
    <3> QED
      BY <1>2, <2>1, LeastNat
  <2>3. PICK p \in T : \A q \in T : p <= q
    BY <2>2
  <2>4. ASSUME NEW q \in P PROVE q < x \/ q >= p
    <3>1. q \in Nat /\ p \in Nat
      OBVIOUS
    <3> QED
      BY <2>3, <3>1
  <2> QED
    BY <2>3, <2>4 DEF IsSuccessor
<1> QED
  BY <1>1, <1>2

-----------------------------------------------------------------------------
(* The inductive invariant *)

RingInv == TypeOK /\ PointsAreActive /\ PointsAreOfNodes /\ RouteExact

\* The facts about the constants that the steps need.
LEMMA HashFacts ==
  ASSUME NEW h \in Hashes, NEW m \in Node
  PROVE  h[m] \subseteq Position /\ h[m] # {} /\ IsFiniteSet(h[m])
<1>1. h \in [Node -> SUBSET Position]
  BY RingAssumption
<1> QED
  BY <1>1, RingAssumption

LEMMA RingInit == Init => RingInv
<1> SUFFICES ASSUME Init PROVE RingInv
  OBVIOUS
<1>1. DOMAIN points = {} /\ nodes = {} /\ sorted = NoCache /\ answer = NoAnswer
  BY DEF Init
<1>2. IsFiniteSet({})
  BY FS_EmptySet
<1>3. TypeOK
  BY <1>1, <1>2 DEF Init, TypeOK
<1>4. PointsAreActive /\ PointsAreOfNodes /\ RouteExact
  BY <1>1 DEF PointsAreActive, PointsAreOfNodes, RouteExact
<1> QED
  BY <1>3, <1>4 DEF RingInv

\* AddNode adds the points of the new node and changes no other.
LEMMA AddFacts ==
  ASSUME RingInv, NEW m \in Node, AddNode(m)
  PROVE  /\ DOMAIN points' = DOMAIN points \cup hash[m]
         /\ \A p \in DOMAIN points \ hash[m] : points'[p] = points[p]
         /\ \A p \in hash[m] : points'[p] = m
  BY DEF AddNode, Join

\* RemoveNode takes the points of its node and changes no other.
LEMMA RemoveFacts ==
  ASSUME RingInv, NEW m \in Node, RemoveNode(m)
  PROVE  /\ DOMAIN points' = DOMAIN points \ hash[m]
         /\ \A p \in DOMAIN points' : points'[p] = points[p]
  BY DEF RemoveNode, Drop

\* Without a shared point a point of an active node is of that node alone.
LEMMA PointHasOneNode ==
  ASSUME RingInv, Disjoint(hash), NEW m \in Node, NEW p \in DOMAIN points
  PROVE  p \in hash[m] <=> points[p] = m
<1>1. points[p] \in nodes /\ p \in hash[points[p]] /\ nodes \subseteq Node
  BY DEF RingInv, TypeOK, PointsAreActive
<1> QED
  BY <1>1 DEF Disjoint

LEMMA AddStep ==
  ASSUME RingInv, NEW m \in Node, AddNode(m)
  PROVE  RingInv'
<1>1. /\ hash' = hash /\ hash \in Hashes /\ nodes \subseteq Node /\ m \notin nodes
      /\ nodes' = nodes \cup {m} /\ sorted' = NoCache /\ answer' = NoAnswer
  BY DEF AddNode, Join, RingInv, TypeOK
<1>2. IsFiniteSet(DOMAIN points') /\ DOMAIN points' \subseteq Position
  <2>1. IsFiniteSet(DOMAIN points) /\ DOMAIN points \subseteq Position
    BY DEF RingInv, TypeOK
  <2>2. IsFiniteSet(hash[m]) /\ hash[m] \subseteq Position
    BY <1>1, HashFacts
  <2>3. IsFiniteSet(DOMAIN points \cup hash[m])
    BY <2>1, <2>2, FS_Union
  <2> QED
    BY <2>1, <2>2, <2>3, AddFacts
<1>3. TypeOK'
  BY <1>1, <1>2 DEF TypeOK, NoAnswer
<1>4. PointsAreActive'
  <2>1. ASSUME NEW p \in DOMAIN points'
        PROVE  points'[p] \in nodes' /\ p \in hash'[points'[p]]
    <3>1. CASE p \in hash[m]
      BY <1>1, <3>1, AddFacts
    <3>2. CASE p \notin hash[m]
      <4>1. p \in DOMAIN points /\ points'[p] = points[p]
        BY <3>2, AddFacts
      <4> QED
        BY <1>1, <4>1 DEF RingInv, PointsAreActive
    <3> QED
      BY <3>1, <3>2
  <2> QED
    BY <2>1 DEF PointsAreActive
<1>5. ASSUME Disjoint(hash)
      PROVE  /\ DOMAIN points' = UNION {hash'[k] : k \in nodes'}
             /\ \A k \in nodes' : \A p \in hash'[k] : points'[p] = k
  <2>1. /\ DOMAIN points = UNION {hash[k] : k \in nodes}
        /\ \A k \in nodes : \A p \in hash[k] : points[p] = k
    BY <1>5 DEF RingInv, PointsAreOfNodes
  <2>2. DOMAIN points' = UNION {hash'[k] : k \in nodes'}
    <3>1. DOMAIN points = UNION {hash[k] : k \in nodes}
      BY <2>1
    <3>2. DOMAIN points' = DOMAIN points \cup hash[m]
      BY AddFacts
    <3> QED
      BY <1>1, <3>1, <3>2
  <2>3. ASSUME NEW k \in nodes', NEW p \in hash'[k]
        PROVE  points'[p] = k
    <3>1. CASE k = m
      BY <1>1, <3>1, AddFacts
    <3>2. CASE k \in nodes
      <4>1. p \in DOMAIN points /\ points[p] = k /\ p \notin hash[m]
        BY <1>1, <1>5, <2>1, <3>2 DEF Disjoint
      <4> QED
        BY <4>1, AddFacts
    <3> QED
      BY <1>1, <3>1, <3>2
  <2> QED
    BY <2>2, <2>3
<1>6. RouteExact'
  BY <1>1 DEF RouteExact, NoAnswer
<1> QED
  BY <1>1, <1>3, <1>4, <1>5, <1>6 DEF RingInv, PointsAreOfNodes, Disjoint

LEMMA RemoveStep ==
  ASSUME RingInv, NEW m \in Node, RemoveNode(m)
  PROVE  RingInv'
<1>1. /\ hash' = hash /\ hash \in Hashes /\ nodes \subseteq Node /\ m \in nodes
      /\ nodes' = nodes \ {m} /\ sorted' = NoCache /\ answer' = NoAnswer
  BY DEF RemoveNode, Drop, RingInv, TypeOK
<1>2. IsFiniteSet(DOMAIN points') /\ DOMAIN points' \subseteq Position
  <2>1. DOMAIN points' \subseteq DOMAIN points
    BY RemoveFacts
  <2> QED
    BY <2>1, FS_Subset DEF RingInv, TypeOK
<1>3. TypeOK'
  BY <1>1, <1>2 DEF TypeOK, NoAnswer
<1>4. PointsAreActive'
  <2>1. ASSUME NEW p \in DOMAIN points'
        PROVE  points'[p] \in nodes' /\ p \in hash'[points'[p]]
    <3>1. p \in DOMAIN points /\ p \notin hash[m] /\ points'[p] = points[p]
      BY RemoveFacts
    <3>2. points[p] \in nodes /\ p \in hash[points[p]]
      BY <3>1 DEF RingInv, PointsAreActive
    <3> QED
      BY <1>1, <3>1, <3>2
  <2> QED
    BY <2>1 DEF PointsAreActive
<1>5. ASSUME Disjoint(hash)
      PROVE  /\ DOMAIN points' = UNION {hash'[k] : k \in nodes'}
             /\ \A k \in nodes' : \A p \in hash'[k] : points'[p] = k
  <2>1. /\ DOMAIN points = UNION {hash[k] : k \in nodes}
        /\ \A k \in nodes : \A p \in hash[k] : points[p] = k
    BY <1>5 DEF RingInv, PointsAreOfNodes
  <2>2. \A k \in nodes' : hash[m] \cap hash[k] = {}
    BY <1>1, <1>5 DEF Disjoint
  <2>3. DOMAIN points' = UNION {hash'[k] : k \in nodes'}
    <3>1. DOMAIN points = UNION {hash[k] : k \in nodes}
      BY <2>1
    <3>2. DOMAIN points' = DOMAIN points \ hash[m]
      BY RemoveFacts
    <3> QED
      BY <1>1, <2>2, <3>1, <3>2
  <2>4. ASSUME NEW k \in nodes', NEW p \in hash'[k]
        PROVE  points'[p] = k
    <3>1. p \in DOMAIN points' /\ points[p] = k
      BY <1>1, <2>1, <2>3
    <3> QED
      BY <3>1, RemoveFacts
  <2> QED
    BY <2>3, <2>4
<1>6. RouteExact'
  BY <1>1 DEF RouteExact, NoAnswer
<1> QED
  BY <1>1, <1>3, <1>4, <1>5, <1>6 DEF RingInv, PointsAreOfNodes, Disjoint

LEMMA RouteStep ==
  ASSUME RingInv, NEW id \in Id, Route(id)
  PROVE  RingInv'
<1> DEFINE P == DOMAIN points
<1>1. /\ P # {} /\ P \subseteq Nat /\ IsFiniteSet(P)
      /\ hash' = hash /\ points' = points /\ nodes' = nodes
  BY RingAssumption DEF Route, Lookup, RingInv, TypeOK
<1>2. sorted' \in Seq(Nat) /\ IsOrder(sorted', P)
  <2>1. CASE sorted = NoCache
    <3>1. sorted' \in [1..Cardinality(P) -> P] /\ IsOrder(sorted', P)
      BY <2>1 DEF Route, Lookup, Orders
    <3>2. Cardinality(P) \in Nat
      BY <1>1, FS_CardinalityType
    <3> QED
      BY <1>1, <3>1, <3>2
  <2>2. CASE sorted # NoCache
    BY <2>2 DEF Route, Lookup, RingInv, TypeOK
  <2> QED
    BY <2>1, <2>2
<1>3. HashKey[id] \in Nat
  BY RingAssumption
<1> DEFINE i == Search(sorted', HashKey[id])
           p == sorted'[IF i > Len(sorted') THEN 1 ELSE i]
<1>4. p \in P /\ IsSuccessor(p, HashKey[id], P)
  BY <1>1, <1>2, <1>3, SearchFindsSuccessor
<1>5. answer' = [id |-> id, node |-> points[p]]
  BY DEF Route, Lookup
<1>6. PICK m \in nodes : m = points[p]
  BY <1>4 DEF RingInv, PointsAreActive
<1>7. m \in Node /\ answer' = [id |-> id, node |-> m]
  BY <1>5, <1>6 DEF RingInv, TypeOK
<1>8. TypeOK'
  BY <1>1, <1>2, <1>7 DEF RingInv, TypeOK
<1>9. Owns(m, id)'
  BY <1>1, <1>4, <1>6 DEF Owns
<1>10. RouteExact'
  BY <1>1, <1>7, <1>9 DEF RouteExact
<1> QED
  BY <1>1, <1>8, <1>10 DEF RingInv, PointsAreActive, PointsAreOfNodes, Disjoint

LEMMA RouteNoneStep ==
  ASSUME RingInv, NEW id \in Id, RouteNone(id)
  PROVE  RingInv'
<1>1. /\ DOMAIN points = {} /\ answer' = [id |-> id, node |-> NoNode]
      /\ UNCHANGED <<hash, points, nodes, sorted>>
  BY DEF RouteNone
<1>2. Disjoint(hash) => nodes = {}
  <2>1. \A m \in nodes : hash[m] # {}
    BY HashFacts DEF RingInv, TypeOK
  <2> QED
    BY <1>1, <2>1 DEF RingInv, PointsAreOfNodes
<1>3. TypeOK'
  BY <1>1 DEF RingInv, TypeOK
<1>4. RouteExact'
  BY <1>1, <1>2 DEF RouteExact, Disjoint
<1> QED
  BY <1>1, <1>3, <1>4 DEF RingInv, PointsAreActive, PointsAreOfNodes, Disjoint

LEMMA RingStep == RingInv /\ [Next]_vars => RingInv'
<1> SUFFICES ASSUME RingInv, [Next]_vars PROVE RingInv'
  OBVIOUS
<1>1. ASSUME NEW m \in Node, AddNode(m) PROVE RingInv'
  BY <1>1, AddStep
<1>2. ASSUME NEW m \in Node, RemoveNode(m) PROVE RingInv'
  BY <1>2, RemoveStep
<1>3. ASSUME NEW id \in Id, Route(id) PROVE RingInv'
  BY <1>3, RouteStep
<1>4. ASSUME NEW id \in Id, RouteNone(id) PROVE RingInv'
  BY <1>4, RouteNoneStep
<1>5. CASE UNCHANGED vars
  <2>1. TypeOK'
    BY <1>5 DEF vars, RingInv, TypeOK
  <2>2. PointsAreActive' /\ PointsAreOfNodes'
    BY <1>5 DEF vars, RingInv, PointsAreActive, PointsAreOfNodes, Disjoint
  <2>3. RouteExact'
    BY <1>5 DEF vars, RingInv, RouteExact, Owns, Disjoint
  <2> QED
    BY <2>1, <2>2, <2>3 DEF RingInv
<1> QED
  BY <1>1, <1>2, <1>3, <1>4, <1>5 DEF Next

-----------------------------------------------------------------------------
(* The theorems *)

\* The sorted cache is empty or holds the present positions in order, and the
\* ring's other state has its types.
THEOREM RingTyped == Spec => []TypeOK
<1>1. Spec => []RingInv
  BY RingInit, RingStep, PTL DEF Spec
<1> QED
  BY <1>1, PTL DEF RingInv

\* No point outlives its node, even when nodes share points.
THEOREM NoPointOutlivesItsNode == Spec => []PointsAreActive
<1>1. Spec => []RingInv
  BY RingInit, RingStep, PTL DEF Spec
<1> QED
  BY <1>1, PTL DEF RingInv

\* The ring is the union of the points of the active nodes, whatever joined
\* and left before: rings with the same nodes route alike.
THEOREM RingIsItsNodes == Spec => []PointsAreOfNodes
<1>1. Spec => []RingInv
  BY RingInit, RingStep, PTL DEF Spec
<1> QED
  BY <1>1, PTL DEF RingInv

\* Route returns the owner on the present ring, through any sequence of joins,
\* leaves and lookups: the sorted cache is never stale.
THEOREM RoutesAreExact == Spec => []RouteExact
<1>1. Spec => []RingInv
  BY RingInit, RingStep, PTL DEF Spec
<1> QED
  BY <1>1, PTL DEF RingInv

\* A node that joins takes an id or leaves it where it was.
LEMMA JoinMoves ==
  ASSUME RingInv, NEW m \in Node, AddNode(m), NEW k \in Node, NEW id \in Id,
         Owns(k, id)
  PROVE  Owns(k, id)' \/ Owns(m, id)'
<1>1. PICK p \in DOMAIN points :
        IsSuccessor(p, HashKey[id], DOMAIN points) /\ points[p] = k
  BY DEF Owns
<1>2. HashKey[id] \in Nat
  BY RingAssumption
<1>3. DOMAIN points \subseteq Nat /\ DOMAIN points' \subseteq Nat
  <2>1. hash[m] \subseteq Position
    BY HashFacts DEF RingInv, TypeOK
  <2>2. DOMAIN points \subseteq Position
    BY DEF RingInv, TypeOK
  <2>3. DOMAIN points' = DOMAIN points \cup hash[m]
    BY AddFacts
  <2>4. Position \subseteq Nat
    BY RingAssumption
  <2> QED
    BY <2>1, <2>2, <2>3, <2>4
<1>4. DOMAIN points' # {}
  BY <1>1, AddFacts
<1>5. PICK q \in DOMAIN points' : IsSuccessor(q, HashKey[id], DOMAIN points')
  BY <1>2, <1>3, <1>4, SuccessorExists
<1>6. CASE q \in hash[m]
  BY <1>5, <1>6, AddFacts DEF Owns
<1>7. CASE q \notin hash[m]
  <2>1. q \in DOMAIN points
    BY <1>5, <1>7, AddFacts
  <2>2. IsSuccessor(q, HashKey[id], DOMAIN points)
    BY <1>5, <2>1, AddFacts DEF IsSuccessor
  <2>3. q = p
    BY <1>1, <1>2, <1>3, <2>2, OneSuccessor
  <2>4. points'[q] = k
    BY <1>1, <1>7, <2>1, <2>3, AddFacts
  <2> QED
    BY <1>5, <2>4 DEF Owns
<1> QED
  BY <1>6, <1>7

\* A node that leaves takes no id from another.
LEMMA LeaveMoves ==
  ASSUME RingInv, Disjoint(hash), NEW m \in Node, RemoveNode(m), NEW k \in Node, k # m,
         NEW id \in Id, Owns(k, id)
  PROVE  Owns(k, id)'
<1>1. PICK p \in DOMAIN points :
        IsSuccessor(p, HashKey[id], DOMAIN points) /\ points[p] = k
  BY DEF Owns
<1>2. p \in DOMAIN points' /\ points'[p] = k
  <2>1. p \notin hash[m]
    BY <1>1, PointHasOneNode
  <2> QED
    BY <1>1, <2>1, RemoveFacts
<1>3. IsSuccessor(p, HashKey[id], DOMAIN points')
  BY <1>1, <1>2, RemoveFacts DEF IsSuccessor
<1> QED
  BY <1>2, <1>3 DEF Owns

\* One step of the ring moves only ids of the node that comes or goes.
LEMMA MoveStep ==
  ASSUME RingInv, [Next]_vars, NEW m \in Node, NEW k \in Node, NEW id \in Id,
         Owns(k, id)
  PROVE  /\ nodes' = nodes \cup {m} => Owns(k, id)' \/ Owns(m, id)'
         /\ Disjoint(hash) /\ nodes' = nodes \ {m} /\ k # m => Owns(k, id)'
<1> DEFINE Goal == /\ nodes' = nodes \cup {m} => Owns(k, id)' \/ Owns(m, id)'
                   /\ Disjoint(hash) /\ nodes' = nodes \ {m} /\ k # m => Owns(k, id)'
<1>1. ASSUME NEW n \in Node, AddNode(n) PROVE Goal
  <2>1. n \notin nodes /\ nodes' = nodes \cup {n}
    BY <1>1 DEF AddNode, Join
  <2>2. nodes' # nodes \ {m}
    BY <2>1
  <2>3. nodes' = nodes \cup {m} => n = m
    BY <2>1
  <2> QED
    BY <1>1, <2>2, <2>3, JoinMoves
<1>2. ASSUME NEW n \in Node, RemoveNode(n) PROVE Goal
  <2>1. n \in nodes /\ nodes' = nodes \ {n}
    BY <1>2 DEF RemoveNode, Drop
  <2>2. nodes' # nodes \cup {m}
    BY <2>1
  <2>3. nodes' = nodes \ {m} => n = m
    BY <2>1
  <2> QED
    BY <1>2, <2>2, <2>3, LeaveMoves
<1>3. CASE points' = points
  BY <1>3 DEF Owns
<1>4. \A i \in Id : Route(i) \/ RouteNone(i) => points' = points
  BY DEF Route, Lookup, RouteNone
<1>5. CASE UNCHANGED vars
  BY <1>3, <1>5 DEF vars
<1> QED
  BY <1>1, <1>2, <1>3, <1>4, <1>5 DEF Next

\* A node that joins takes ids only for itself, a node that leaves gives away
\* only its own: there is no full re-hash.
THEOREM MovesStayMinimal == Spec => MovesAreMinimal
<1>1. Spec => []RingInv
  BY RingInit, RingStep, PTL DEF Spec
<1>2. RingInv /\ [Next]_vars =>
        [\A m, k \in Node : \A id \in Id :
           /\ nodes' = nodes \cup {m} /\ Owns(k, id) => Owns(k, id)' \/ Owns(m, id)'
           /\ Disjoint(hash) /\ nodes' = nodes \ {m} /\ k # m /\ Owns(k, id) => Owns(k, id)']_vars
  BY MoveStep
<1> QED
  BY <1>1, <1>2, PTL DEF Spec, MovesAreMinimal
=============================================================================
