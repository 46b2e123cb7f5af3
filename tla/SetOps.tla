------------------------------- MODULE SetOps -------------------------------
(***************************************************************************)
(* The pure set algorithms of the engine (setrixdb.go, addb/setops.go): a  *)
(* finalized Set is a strictly increasing sequence of ids.  The loops of   *)
(* the code are recursive functions here, so that what they compute can be *)
(* compared with plain set theory and used inside provable modules.        *)
(***************************************************************************)
EXTENDS Integers, Sequences, FiniteSets

\* The mathematical set a sequence of ids stands for.
Elems(s) == {s[i] : i \in DOMAIN s}

\* sort.Search: the first position (from 0) whose element is >= q.
LowerBound(s, q) ==
  LET search[r \in (0..Len(s)) \X (0..Len(s))] ==
        LET i == r[1]
            j == r[2]
            h == (i + j) \div 2
        IN  IF i >= j THEN i
            ELSE IF s[h + 1] < q THEN search[<<h + 1, j>>] ELSE search[<<i, h>>]
  IN  search[<<0, Len(s)>>]

ContainsSorted(s, q) ==
  LET i == LowerBound(s, q) IN i < Len(s) /\ s[i + 1] = q

\* Two cursors over two ascending sequences; equal heads are emitted once.
IntersectSorted(a, b) ==
  LET merge[c \in (1..Len(a) + 1) \X (1..Len(b) + 1)] ==
        LET i == c[1]
            j == c[2]
        IN  IF i > Len(a) \/ j > Len(b) THEN <<>>
            ELSE IF a[i] < b[j] THEN merge[<<i + 1, j>>]
            ELSE IF a[i] > b[j] THEN merge[<<i, j + 1>>]
            ELSE <<a[i]>> \o merge[<<i + 1, j + 1>>]
  IN  merge[<<1, 1>>]

\* Pairwise from the left; an empty accumulator ends the loop.
IntersectMany(ss) ==
  LET acc[i \in 1..Len(ss)] ==
        IF i = 1 THEN ss[1]
        ELSE LET sofar == acc[i - 1]
             IN  IF i > 2 /\ sofar = <<>> THEN <<>> ELSE IntersectSorted(sofar, ss[i])
  IN  IF ss = <<>> THEN <<>> ELSE acc[Len(ss)]

\* Intersect works on copies of the ids of every operand (Set.IDs); Filter is
\* the case of two operands.
Intersect(ss) == IF ss = <<>> THEN <<>> ELSE IntersectMany(ss)

\* sort.Slice on ids: the element of rank k comes k-th.
Sort(raw) ==
  LET rank(i) == Cardinality({j \in DOMAIN raw :
                                raw[j] < raw[i] \/ (raw[j] = raw[i] /\ j <= i)})
  IN  [k \in DOMAIN raw |-> raw[CHOOSE i \in DOMAIN raw : rank(i) = k]]

\* Set.finalize on a set only one goroutine holds: sort, then keep the first
\* id of every run of equal ones.
Finalize(raw) ==
  LET s == Sort(raw)
      keep[i \in 1..Len(raw) + 1] ==
        IF i > Len(raw) THEN <<>>
        ELSE IF i > 1 /\ s[i] = s[i - 1] THEN keep[i + 1]
        ELSE <<s[i]>> \o keep[i + 1]
  IN  keep[1]

\* append(out, s...) for every s in turn.
Concat(ss) ==
  LET concat[i \in 0..Len(ss)] == IF i = 0 THEN <<>> ELSE concat[i - 1] \o ss[i]
  IN  concat[Len(ss)]

\* Union: concatenate the copies, finalize the result.
Union(ss) == Finalize(Concat(ss))
=============================================================================
