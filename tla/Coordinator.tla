----------------------------- MODULE Coordinator -----------------------------
(***************************************************************************)
(* The Coordinator of internal/cluster: node i owns a contiguous range of  *)
(* words, a load visits the nodes in order, and a gather waits for every   *)
(* node before it returns.                                                 *)
(***************************************************************************)
EXTENDS ClusterClient

\* The words of node i: global[lo:hi], renumbered from 0.
Lo(i) == (i * Words) \div Nodes
Hi(i) == ((i + 1) * Words) \div Nodes
Home == [k \in 0..Words - 1 |-> CHOOSE i \in Node : Lo(i) <= k /\ k < Hi(i)]
Slice(global, i) == [k \in 1..Hi(i) - Lo(i) |-> global[Lo(i) + k - 1]]

\* A bug for the checks to find: the result is the sum of what arrived.
CollectAnswered(c) ==
  /\ pc[c] = "gathering" /\ Len(results[c]) = Nodes
  /\ Return(c, TRUE, Total(SelectSeq(results[c], LAMBDA r : r.ok)))
  /\ UNCHANGED <<nodeVars, callVars, todo, tasks, results, historyVars>>

\* A bug for the checks to find: the first error ends the gather.
CollectEarly(c) ==
  /\ pc[c] = "gathering"
  /\ \/ Failed(results[c]) /\ Return(c, FALSE, 0)
     \/ /\ ~Failed(results[c]) /\ Len(results[c]) = Nodes
        /\ Return(c, TRUE, Total(results[c]))
  /\ UNCHANGED <<nodeVars, callVars, todo, tasks, results, historyVars>>

\* wg.Wait, then the sum of the counts or the first error.
Collect(c) ==
  /\ pc[c] = "gathering" /\ Len(results[c]) = Nodes
  /\ IF Failed(results[c]) THEN Return(c, FALSE, 0) ELSE Return(c, TRUE, Total(results[c]))
  /\ UNCHANGED <<nodeVars, callVars, todo, tasks, results, historyVars>>

\* A load visits the nodes in order.
LoadInOrder(c) ==
  \E n \in todo[c] : (\A m \in todo[c] : n <= m) /\ LoadNext(c, n, Slice(call[c].set, n))

Step(c) ==
  \/ LoadInOrder(c) \/ LoadAck(c) \/ Collect(c) \/ Run(c) \/ Taken(c)

\* A query over all nodes.
Gather(c, r) == BeginGather(c, r, [n \in Node |-> Slice(r.set, n)])

Next ==
  \/ \E c \in Client :
       \/ Dial(c)
       \/ \E r \in Call : BeginLoad(c, r) \/ Gather(c, r)
       \/ Step(c)
       \/ \E n \in Node : Serve(c, n)
  \/ \E n \in Node : ServeLate(n) \/ NodeDies(n)
  \/ Network

Init == ClientInit
Spec == Init /\ [][Next]_vars

\* A client and the nodes that serve it go on working; faults and new calls need
\* not come.
Fairness ==
  \A c \in Client : WF_vars(Step(c) \/ \E n \in Node : Serve(c, n))

FairSpec == Spec /\ Fairness

-----------------------------------------------------------------------------
(* Properties *)

\* A count that is returned without an error is put together of whole versions:
\* every node answers from one version of each name, and not from one that is
\* older than the last load that ended well.  So the count is |A /\ B| once the
\* last load of each name was alone and ended well; after loads that overlapped
\* or failed, or a node that came back empty, each node has one of the versions
\* these left.  Once a node of a client has died, none of its queries succeeds
\* before it dials again.  (LoadSet, gather: cluster.go:220-270.)
AnswersExact ==
  \A c \in Client :
    (pc[c] = "returned" /\ call[c].op # "load" /\ out[c].ok) =>
      out[c].count \in Counts(call[c], Home, seen[c])

\* No two goroutines read one connection, so no reply is decoded from the
\* middle of another (the counterpart in ShardedCluster does not hold).
OneReader ==
  \A c \in Client : \A t, u \in tasks[c] : t.node = u.node => t = u

\* Every call returns, with a result or an error, whatever nodes die
\* (no deadline is set anywhere: every wait must end by a reply or a break).
EveryCallReturns ==
  \A c \in Client : pc[c] \in {"loading", "gathering"} ~> pc[c] = "returned"
=============================================================================
