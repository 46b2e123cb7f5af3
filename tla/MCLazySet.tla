---- MODULE MCLazySet ----
(* All pairs of two ids. *)
EXTENDS LazySet

CONSTANTS t1, t2

PairBatch == [1..2 -> 1..2]
====
