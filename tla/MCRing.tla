---- MODULE MCRing ----
(* Three nodes with one or two virtual points each on five positions, shared or
   not; ids at every position, between them and after the last one. *)
EXTENDS Ring, TLC

CONSTANTS n1, n2, n3

Nodes3 == {n1, n2, n3}
Positions == 1..5
AllHashes == [Nodes3 -> {P \in SUBSET Positions : Cardinality(P) \in 1..2}]
IdAt == [id \in 0..6 |-> id]
Alike == Permutations(Nodes3)
====
