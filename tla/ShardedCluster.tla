--------------------------- MODULE ShardedCluster ---------------------------
(***************************************************************************)
(* The ShardedCluster of internal/cluster: the words are cut into shards,  *)
(* each shard belongs to the node the hash ring routes it to, a node holds *)
(* the concatenation of its shards, a load visits the nodes in the order   *)
(* of an iteration over a map, and a gather returns at the first error     *)
(* while the goroutines of the other nodes go on.                          *)
(***************************************************************************)
EXTENDS ClusterClient

CONSTANTS
  Shards,      \* how many shards there are
  Owner        \* the node the ring routes each shard to: see Ring

ASSUME ShardAssumption ==
  Shards \in Nat \ {0} /\ Owner \in [0..Shards - 1 -> Node]

\* The words of shard s, [lo, hi), and the shard of a word.
Lo(s) == (s * Words) \div Shards
Hi(s) == ((s + 1) * Words) \div Shards

Home == [k \in 0..Words - 1 |-> Owner[CHOOSE s \in 0..Shards - 1 : Lo(s) <= k /\ k < Hi(s)]]

\* The words of the shards of a node, one shard after the other.
NodeSlice(global, n) ==
  LET upTo[s \in 0..Shards] ==
        IF s = 0 THEN <<>>
        ELSE upTo[s - 1] \o
               (IF Owner[s - 1] # n THEN <<>>
                ELSE [k \in 1..Hi(s - 1) - Lo(s - 1) |-> global[Lo(s - 1) + k - 1]])
  IN  upTo[Shards]

\* A bug for the checks to find: the first count ends the gather.
CollectFirst(c) ==
  /\ pc[c] = "gathering" /\ results[c] # <<>>
  /\ Return(c, Head(results[c]).ok, Head(results[c]).count)
  /\ UNCHANGED <<nodeVars, callVars, todo, tasks, results, historyVars>>

\* Results are taken one at a time: an error returns at once, a count is added.
Collect(c) ==
  /\ pc[c] = "gathering" /\ results[c] # <<>>
  /\ \/ Failed(results[c]) /\ Return(c, FALSE, 0)
     \/ /\ ~Failed(results[c]) /\ Len(results[c]) = Nodes
        /\ Return(c, TRUE, Total(results[c]))
  /\ UNCHANGED <<nodeVars, callVars, todo, tasks, results, historyVars>>

Step(c) ==
  \/ \E n \in todo[c] : LoadNext(c, n, NodeSlice(call[c].set, n))
  \/ LoadAck(c) \/ Collect(c) \/ Run(c) \/ Taken(c)

\* A query over all nodes.
Gather(c, r) == BeginGather(c, r, [n \in Node |-> NodeSlice(r.set, n)])

Next ==
  \/ \E c \in Client :
       \/ Dial(c)
       \/ \E r \in Call : BeginLoad(c, r) \/ Gather(c, r)
       \/ Step(c)
       \/ \E n \in Node : Serve(c, n)
  \/ \E n \in Node : ServeLate(n) \/ NodeDies(n)
  \/ Network

Init == ClientInit
Spec == Init /\ [][Next]_vars

-----------------------------------------------------------------------------
(* Properties *)

\* A count that is returned without an error is put together of whole versions,
\* each node's one that the last loads left, or that a failed load had left on its
\* way to the node, whatever nodes own the shards: NodeSlice cuts loads and queries
\* alike.  And although goroutines of a failed
\* gather go on reading (sharded.go:88-116), no later call of that client
\* succeeds with a reply that was not its own.
AnswersExact ==
  \A c \in Client :
    (pc[c] = "returned" /\ call[c].op # "load" /\ out[c].ok) =>
      out[c].count \in Counts(call[c], Home, seen[c])

\* A gather asks every node and returns the sum of the counts or an error
\* (sharded.go:85): none of its goroutines panics.
GatherReturns == \A c \in Client : pc[c] # "panicked"
=============================================================================
