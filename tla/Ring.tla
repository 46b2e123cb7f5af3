-------------------------------- MODULE Ring --------------------------------
(***************************************************************************)
(* The consistent hash ring of internal/addb/ring.go.  Every node has some *)
(* virtual points; an id belongs to the node of the first point at or after*)
(* its own position, or of the first point of all.  The sorted positions   *)
(* are a cache that Route fills and that changes of the ring empty.        *)
(***************************************************************************)
EXTENDS Integers, Sequences, FiniteSets

CONSTANTS
  Node,        \* names of nodes
  Id,          \* the ids that are routed
  Position,    \* positions on the ring
  Hashes,      \* what hashKeyNode may be: the points of each node
  HashKey,     \* the position of each id
  NoCache, NoNode

ASSUME RingAssumption ==
  /\ Position \subseteq Nat
  /\ \A h \in Hashes : h \in [Node -> SUBSET Position]
  /\ \A h \in Hashes : \A m \in Node : h[m] # {} /\ IsFiniteSet(h[m])
  /\ HashKey \in [Id -> Nat]
  /\ NoNode \notin Node /\ NoCache \notin Seq(Nat)

\* No two nodes share a virtual point, as two equal 64-bit hashes would.
Disjoint(h) == \A m, k \in Node : m # k => h[m] \cap h[k] = {}

VARIABLES
  hash,        \* hashKeyNode: chosen once
  points,      \* position -> node
  nodes,       \* the active nodes
  sorted,      \* the positions in order, or NoCache
  answer       \* what the last Route returned, until the ring changes

vars == <<hash, points, nodes, sorted, answer>>

NoAnswer == [id |-> NoNode, node |-> NoNode]

Init ==
  /\ hash \in Hashes
  /\ points = [p \in {} |-> NoNode]
  /\ nodes = {}
  /\ sorted = NoCache
  /\ answer = NoAnswer

\* Node m joins with its points, also those another node has; c is the cache then.
Join(m, c) ==
  /\ m \notin nodes
  /\ nodes' = nodes \cup {m}
  /\ points' = [p \in DOMAIN points \cup hash[m] |->
                  IF p \in hash[m] THEN m ELSE points[p]]
  /\ sorted' = c
  /\ answer' = NoAnswer
  /\ UNCHANGED hash

\* A bug for the checks to find: the cache survives.
AddNodeKeepsCache(m) == Join(m, sorted)

AddNode(m) == Join(m, NoCache)

\* Node m leaves and the points P go, whoever they belong to by now.
Drop(m, P) ==
  /\ m \in nodes
  /\ nodes' = nodes \ {m}
  /\ points' = [p \in DOMAIN points \ P |-> points[p]]
  /\ sorted' = NoCache
  /\ answer' = NoAnswer
  /\ UNCHANGED hash

\* Bugs for the checks to find: another node's points go as well, or one stays.
RemoveNodeClears(m) == Drop(m, Position)
RemoveNodeLeavesOne(m) == \E p \in hash[m] : Drop(m, hash[m] \ {p})

RemoveNode(m) == Drop(m, hash[m])

\* The positions P in increasing order, each once.
IsOrder(s, P) ==
  /\ {s[i] : i \in DOMAIN s} = P
  /\ \A i, j \in DOMAIN s : i < j => s[i] < s[j]

Orders(P) == {s \in [1..Cardinality(P) -> P] : IsOrder(s, P)}

\* sort.Search: the first index whose position is at or after pos, or 1 + Len(s).
Search(s, pos) ==
  CHOOSE i \in 1..Len(s) + 1 :
    /\ i <= Len(s) => s[i] >= pos
    /\ \A k \in 1..i - 1 : s[k] < pos

\* ensureSorted, then the binary search; past the last position it is position w.
Lookup(id, w) ==
  /\ DOMAIN points # {}
  /\ sorted' \in IF sorted = NoCache THEN Orders(DOMAIN points) ELSE {sorted}
  /\ LET i == Search(sorted', HashKey[id])
     IN  answer' = [id |-> id, node |-> points[sorted'[IF i > Len(sorted') THEN w ELSE i]]]
  /\ UNCHANGED <<hash, points, nodes>>

\* A bug for the checks to find: no wrap-around.
RouteClamps(id) == Lookup(id, Cardinality(DOMAIN points))

Route(id) == Lookup(id, 1)

\* An empty ring: ok = FALSE.
RouteNone(id) ==
  /\ DOMAIN points = {}
  /\ answer' = [id |-> id, node |-> NoNode]
  /\ UNCHANGED <<hash, points, nodes, sorted>>

Next ==
  \/ \E m \in Node : AddNode(m) \/ RemoveNode(m)
  \/ \E id \in Id : Route(id) \/ RouteNone(id)

Spec == Init /\ [][Next]_vars

-----------------------------------------------------------------------------
(* Properties, said without the cache and the search *)

\* p is the first position of P at or after x, going round the ring.
IsSuccessor(p, x, P) ==
  /\ p \in P
  /\ \A q \in P : IF p >= x THEN q < x \/ q >= p ELSE q < x /\ q >= p

\* The id belongs to node m.
Owns(m, id) ==
  \E p \in DOMAIN points : IsSuccessor(p, HashKey[id], DOMAIN points) /\ points[p] = m

\* Types; the cache is empty or holds the present positions in order.
TypeOK ==
  /\ hash \in Hashes
  /\ nodes \subseteq Node
  /\ DOMAIN points \subseteq Position /\ IsFiniteSet(DOMAIN points)
  /\ sorted # NoCache => sorted \in Seq(Nat) /\ IsOrder(sorted, DOMAIN points)
  /\ answer = NoAnswer \/ answer \in [id : Id, node : Node \cup {NoNode}]

\* No point outlives its node, whoever joined, took a shared point and left in
\* between: Route never names a node that was removed (ring.go:67-76).
PointsAreActive == \A p \in DOMAIN points : points[p] \in nodes /\ p \in hash[points[p]]

\* Without a shared point the ring is that of the active nodes, whatever came and
\* went before: two rings with the same nodes route alike, which ShardedCluster
\* relies on when several clients compute the owners of shards (sharded.go:32-35).
\* With a shared point it depends on the order in which the nodes came.
PointsAreOfNodes ==
  Disjoint(hash) =>
    /\ DOMAIN points = UNION {hash[m] : m \in nodes}
    /\ \A m \in nodes : \A p \in hash[m] : points[p] = m

\* Route answers with the owner on the present ring, through any sequence of
\* changes and lookups, and finds none only on a ring without points; shared points
\* apart, that is a ring without nodes.
RouteExact ==
  answer # NoAnswer =>
    \/ answer.node = NoNode /\ DOMAIN points = {} /\ (Disjoint(hash) => nodes = {})
    \/ answer.node \in nodes /\ Owns(answer.node, answer.id)

\* A node that joins only takes ids, shared points or not, and a node that leaves
\* only gives its own: every other id keeps its owner (ring.go:11-12, "sem re-hash
\* total"). Leaving with a shared point also takes that point from the other node.
MovesAreMinimal ==
  [][\A m, k \in Node : \A id \in Id :
       /\ nodes' = nodes \cup {m} /\ Owns(k, id) => Owns(k, id)' \/ Owns(m, id)'
       /\ Disjoint(hash) /\ nodes' = nodes \ {m} /\ k # m /\ Owns(k, id) => Owns(k, id)']_vars
=============================================================================
