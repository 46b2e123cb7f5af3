------------------------------ MODULE MCKeyer ------------------------------
(* Up to three terms of four, the empty one among them, over five hashes. *)
EXTENDS Keyer

CONSTANTS t1, t2, t3, t4, e

Five == 0..4

\* Hashes of t1, t2, t3, t4 and the empty term.
HashOf(a, b, c, d, empty) ==
  [t \in Term |-> CASE t = t1 -> a [] t = t2 -> b [] t = t3 -> c [] t = t4 -> d
                    [] t = EmptyTerm -> empty]

\* A pair and a term alone; a pair that an absent term joins; all alike.
SomeBases == {HashOf(0, 0, 2, 2, 4), HashOf(0, 0, 1, 0, 4), HashOf(0, 0, 0, 1, 0)}

\* Candidates that hit other terms' hashes, or swap them and return to the start.
Shift(n) == [h \in Hash |-> (h + n) % 5]
Swap == [h \in Hash |-> IF h \in {0, 1} THEN 1 - h ELSE h]
SomeChains == {<<Shift(1), Shift(2)>>, <<Swap, Shift(0)>>}

Vocabularies == {<<>>, <<t1>>, <<t1, t2, t1, t3>>, <<t1, EmptyTerm>>}
Indexes == {<<>>, <<3, 3>>, <<0, 1, 2, 3>>}
=============================================================================
