---- MODULE MCShardedCluster ----
(* Two nodes and three shards of one or two words: one node owns two shards. *)
EXTENDS ShardedCluster

CONSTANTS a, b, x

Set(s) == [i \in 0..Words - 1 |-> IF i \in s THEN {x} ELSE {}]
On(op, name, with, s) == [op |-> op, name |-> name, with |-> with, set |-> Set(s)]

LoadA == On("load", a, a, {0, 2, 4})
Reload == On("load", a, a, {1, 2, 4})
Stored == On("stored", a, b, {})
Query == On("query", a, a, {0, 1})
AllCalls == {LoadA, Reload, On("load", b, b, {1, 2, 4}), Stored, Query}
AnyCall == AllCalls \ {Reload}
RetryCalls == {Stored, On("load", a, a, {0})}

\* Three calls in any order; or a failed query before two loads and another query.
Scripts ==
  {[calls |-> [c \in Client |-> <<AnyCall, AnyCall, AnyCall>>], deaths |-> TRUE],
   [calls |-> [c \in Client |-> <<{Query}, {LoadA}, {Reload}, {Query}>>], deaths |-> TRUE]}
Two == {[calls |-> [c \in Client |-> <<RetryCalls, RetryCalls>>], deaths |-> TRUE]}

\* What a ring may answer.
SplitOwner == [s \in 0..Shards - 1 |-> s % 2]
====
