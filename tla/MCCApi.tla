---- MODULE MCCApi ----
(* All batches of up to three ids over three values, and a second set. *)
EXTENDS CApi

CONSTANTS t1, t2

SmallBatch == UNION {[1..k -> 1..3] : k \in 1..3}
TwoAndFour == <<2, 4>>
Queries == {<<1>>, <<2>>, <<2, 1>>}
====
