---- MODULE MCCoordinator ----
(* Two nodes and three words: one node owns one word, the other two. *)
EXTENDS Coordinator, TLC

CONSTANTS c1, c2, a, b, x

Set(s) == [i \in 0..Words - 1 |-> IF i \in s THEN {x} ELSE {}]
On(op, name, with, s) == [op |-> op, name |-> name, with |-> with, set |-> Set(s)]

\* Loads of two names, one of them with two values, and a query of each kind: no
\* two versions that one query meets add up to the count of others.
First == {On("load", a, a, {1, 2}), On("load", b, b, {0, 2})}
Loads == First \cup {On("load", a, a, {0, 1, 2})}
Queries == {On("stored", a, b, {}), On("query", a, a, {0, 1, 2})}
StoredCalls == Loads \cup Queries

\* One client and nodes that die, or two clients of nodes that live.
AloneOrTwo ==
  {[calls |-> c1 :> <<First, StoredCalls, Queries>> @@ c2 :> <<>>, deaths |-> TRUE],
   [calls |-> c1 :> <<StoredCalls, Queries>> @@ c2 :> <<Loads>>, deaths |-> FALSE]}
====
