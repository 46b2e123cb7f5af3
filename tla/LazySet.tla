------------------------------- MODULE LazySet -------------------------------
(***************************************************************************)
(* One Set of setrixdb.go shared by several goroutines.  Add only appends; *)
(* the first query sorts the ids in place, drops duplicates, shortens the  *)
(* slice and sets the flag, without a lock.  A step is an access to the    *)
(* memory the goroutines share (the cells, the length, the flag).          *)
(*                                                                         *)
(* An owner builds the set, may query it, and publishes it, as a PUT       *)
(* handler does; then any goroutine queries it.  A query here is IDs, which*)
(* reads all that Len and Has read.  At most 12 ids: sort.Slice is then an *)
(* insertion sort.                                                         *)
(***************************************************************************)
EXTENDS SetOps

CONSTANTS
  Thread,
  Owner,       \* the goroutine that builds the set
  Batch,       \* the arguments of Add: sequences of ids
  MaxLen,      \* bound: how long the slice may get
  Careful      \* the owner publishes only a set it finalized, or whose ids
               \* it added in strictly increasing order

ASSUME LazyAssumption ==
  /\ Owner \in Thread /\ MaxLen \in 0..12 /\ Careful \in BOOLEAN
  /\ Batch \subseteq Seq(Nat)

VARIABLES
  cells,       \* the array behind s.ids
  length,      \* len(s.ids)
  sorted,      \* s.sorted
  published,   \* other goroutines hold the set
  pc,          \* per thread: its next step
  n, i, j, w,  \* per thread: the length it took, and the loop indices
  tmp,         \* per thread: the values a swap has loaded
  got,         \* per thread: the ids copied so far
  added        \* history: the ids ever added

shared == <<cells, length, sorted>>
locals == <<n, i, j, w, tmp, got>>
vars == <<shared, published, pc, locals, added>>

Init ==
  /\ cells = <<>> /\ length = 0 /\ sorted = FALSE /\ published = FALSE
  /\ pc = [t \in Thread |-> "idle"]
  /\ n = [t \in Thread |-> 0] /\ i = [t \in Thread |-> 1]
  /\ j = [t \in Thread |-> 1] /\ w = [t \in Thread |-> 0]
  /\ tmp = [t \in Thread |-> <<0, 0>>]
  /\ got = [t \in Thread |-> <<>>]
  /\ added = {}

Goto(t, l) == pc' = [pc EXCEPT ![t] = l]
Increasing(s) == \A a, b \in DOMAIN s : a < b => s[a] < s[b]
Current == SubSeq(cells, 1, length)

\* A bug for the checks to find: the flag is not reset.
AddKeepsFlag(s) ==
  /\ pc[Owner] = "idle" /\ ~published
  /\ s # <<>> /\ length + Len(s) <= MaxLen
  /\ cells' = Current \o s
  /\ length' = length + Len(s)
  /\ added' = added \cup Elems(s)
  /\ UNCHANGED <<sorted, published, pc, locals>>

Add(s) ==
  /\ pc[Owner] = "idle" /\ ~published
  /\ s # <<>> /\ length + Len(s) <= MaxLen
  /\ cells' = Current \o s
  /\ length' = length + Len(s)
  /\ sorted' = FALSE
  /\ added' = added \cup Elems(s)
  /\ UNCHANGED <<published, pc, locals>>

Publish ==
  /\ pc[Owner] = "idle" /\ ~published
  /\ Careful => sorted \/ Increasing(Current)
  /\ published' = TRUE
  /\ UNCHANGED <<shared, pc, locals, added>>

Ask(t) ==
  /\ pc[t] = "idle" /\ (published \/ t = Owner)
  /\ Goto(t, "check")
  /\ UNCHANGED <<shared, published, locals, added>>

\* A bug for the checks to find: the flag is set before the work is done.
CheckAndFlag(t) ==
  /\ pc[t] = "check"
  /\ sorted' = TRUE
  /\ n' = [n EXCEPT ![t] = length]
  /\ i' = [i EXCEPT ![t] = 2] /\ j' = [j EXCEPT ![t] = 2]
  /\ Goto(t, IF sorted THEN "copy" ELSE IF length < 2 THEN "range" ELSE "less")
  /\ UNCHANGED <<cells, length, published, w, tmp, got, added>>

\* finalize returns at once, or sort.Slice takes the slice and its length.
CheckSorted(t) ==
  /\ pc[t] = "check"
  /\ n' = [n EXCEPT ![t] = length]
  /\ i' = [i EXCEPT ![t] = 2] /\ j' = [j EXCEPT ![t] = 2]
  /\ Goto(t, IF sorted THEN "copy" ELSE IF length < 2 THEN "range" ELSE "less")
  /\ UNCHANGED <<shared, published, w, tmp, got, added>>

\* The insertion of element i is over: take the next one, or end the sort.
NextElement(t) ==
  /\ i' = [i EXCEPT ![t] = @ + 1] /\ j' = [j EXCEPT ![t] = i[t] + 1]
  /\ Goto(t, IF i[t] = n[t] THEN "range" ELSE "less")

\* An index into s.ids beyond its present length.
Panic(t) == Goto(t, "panicked") /\ UNCHANGED <<i, j>>

\* less(j, j-1) indexes s.ids as it is now, not as it was when the sort began.
Less(t) ==
  /\ pc[t] = "less"
  /\ IF j[t] > length THEN Panic(t)
     ELSE IF cells[j[t]] < cells[j[t] - 1] THEN Goto(t, "swap") /\ UNCHANGED <<i, j>>
     ELSE NextElement(t)
  /\ UNCHANGED <<shared, published, n, w, tmp, got, added>>

\* swap(j, j-1): two loads, then two stores.
SwapLoad(t) ==
  /\ pc[t] = "swap"
  /\ tmp' = [tmp EXCEPT ![t] = <<cells[j[t] - 1], cells[j[t]]>>]
  /\ Goto(t, "store")
  /\ UNCHANGED <<shared, published, n, i, j, w, got, added>>

SwapStore(t) ==
  /\ pc[t] = "store"
  /\ cells' = [cells EXCEPT ![j[t]] = tmp[t][1]]
  /\ Goto(t, "store2")
  /\ UNCHANGED <<length, sorted, published, locals, added>>

SwapStored(t) ==
  /\ pc[t] = "store2"
  /\ cells' = [cells EXCEPT ![j[t] - 1] = tmp[t][2]]
  /\ IF j[t] = 2 THEN NextElement(t)
     ELSE j' = [j EXCEPT ![t] = @ - 1] /\ Goto(t, "less") /\ UNCHANGED i
  /\ UNCHANGED <<length, sorted, published, n, w, tmp, got, added>>

\* for i := range s.ids: the length is taken once.
TakeRange(t) ==
  /\ pc[t] = "range"
  /\ n' = [n EXCEPT ![t] = length]
  /\ i' = [i EXCEPT ![t] = 1] /\ w' = [w EXCEPT ![t] = 0]
  /\ Goto(t, IF length = 0 THEN "cut" ELSE "compare")
  /\ UNCHANGED <<shared, published, j, tmp, got, added>>

\* A bug for the checks to find: a duplicate is compared for ever.
CompareStays(t) ==
  /\ pc[t] = "compare"
  /\ IF i[t] > length THEN Panic(t)
     ELSE IF w[t] = 0 \/ cells[i[t]] # cells[w[t]] THEN Goto(t, "keep") /\ UNCHANGED <<i, j>>
     ELSE Goto(t, "compare") /\ UNCHANGED <<i, j>>
  /\ UNCHANGED <<shared, published, n, w, tmp, got, added>>

\* Is element i the one that was kept last?
Compare(t) ==
  /\ pc[t] = "compare"
  /\ IF i[t] > length THEN Panic(t)
     ELSE IF w[t] = 0 \/ cells[i[t]] # cells[w[t]] THEN Goto(t, "keep") /\ UNCHANGED <<i, j>>
     ELSE /\ i' = [i EXCEPT ![t] = @ + 1]
          /\ Goto(t, IF i[t] = n[t] THEN "cut" ELSE "compare")
          /\ UNCHANGED j
  /\ UNCHANGED <<shared, published, n, w, tmp, got, added>>

Keep(t) ==
  /\ pc[t] = "keep"
  /\ IF i[t] > length
     THEN Panic(t) /\ UNCHANGED <<cells, w>>
     ELSE /\ cells' = [cells EXCEPT ![w[t] + 1] = cells[i[t]]]
          /\ w' = [w EXCEPT ![t] = @ + 1]
          /\ i' = [i EXCEPT ![t] = @ + 1]
          /\ Goto(t, IF i[t] = n[t] THEN "cut" ELSE "compare")
          /\ UNCHANGED j
  /\ UNCHANGED <<length, sorted, published, n, tmp, got, added>>

\* A bug for the checks to find: one cell too many.
CutOneMore(t) ==
  /\ pc[t] = "cut"
  /\ length' = w[t] + 1
  /\ Goto(t, "flag")
  /\ UNCHANGED <<cells, sorted, published, locals, added>>

\* s.ids = s.ids[:w]
Cut(t) ==
  /\ pc[t] = "cut"
  /\ length' = w[t]
  /\ Goto(t, "flag")
  /\ UNCHANGED <<cells, sorted, published, locals, added>>

Flag(t) ==
  /\ pc[t] = "flag"
  /\ sorted' = TRUE
  /\ Goto(t, "copy")
  /\ UNCHANGED <<cells, length, published, locals, added>>

\* The copy that IDs returns: the length first, then cell by cell.
CopyLength(t) ==
  /\ pc[t] = "copy"
  /\ n' = [n EXCEPT ![t] = length]
  /\ got' = [got EXCEPT ![t] = <<>>]
  /\ Goto(t, IF length = 0 THEN "done" ELSE "take")
  /\ UNCHANGED <<shared, published, i, j, w, tmp, added>>

CopyCell(t) ==
  /\ pc[t] = "take"
  /\ got' = [got EXCEPT ![t] = Append(@, cells[Len(@) + 1])]
  /\ Goto(t, IF Len(got[t]) + 1 = n[t] THEN "done" ELSE "take")
  /\ UNCHANGED <<shared, published, n, i, j, w, tmp, added>>

Done(t) ==
  /\ pc[t] = "done"
  /\ got' = [got EXCEPT ![t] = <<>>]
  /\ n' = [n EXCEPT ![t] = 0]
  /\ i' = [i EXCEPT ![t] = 1] /\ j' = [j EXCEPT ![t] = 1]
  /\ w' = [w EXCEPT ![t] = 0] /\ tmp' = [tmp EXCEPT ![t] = <<0, 0>>]
  /\ Goto(t, "idle")
  /\ UNCHANGED <<shared, published, added>>

Work(t) ==
  \/ CheckSorted(t) \/ Less(t) \/ SwapLoad(t) \/ SwapStore(t) \/ SwapStored(t)
  \/ TakeRange(t) \/ Compare(t) \/ Keep(t) \/ Cut(t) \/ Flag(t)
  \/ CopyLength(t) \/ CopyCell(t)

Step(t) == Work(t) \/ Done(t)

Next ==
  \/ \E s \in Batch : Add(s)
  \/ Publish
  \/ \E t \in Thread : Ask(t) \/ Step(t)

Spec == Init /\ [][Next]_vars
FairSpec == Spec /\ \A t \in Thread : WF_vars(Step(t))

-----------------------------------------------------------------------------
(* Properties *)

Labels == {"idle", "check", "less", "swap", "store", "store2", "range",
           "compare", "keep", "cut", "flag", "copy", "take", "done", "panicked"}

\* Types, the length within the array, and indices no loop leaves.
TypeOK ==
  /\ cells \in Seq(Nat) /\ length \in 0..Len(cells) /\ Len(cells) <= MaxLen
  /\ sorted \in BOOLEAN /\ published \in BOOLEAN
  /\ pc \in [Thread -> Labels]
  /\ \A t \in Thread : /\ n[t] \in 0..MaxLen /\ w[t] \in 0..n[t]
                       /\ i[t] \in 1..MaxLen + 2 /\ j[t] \in 1..MaxLen + 2

\* A query returns the ids that were added, in order and without duplicates
\* (setrixdb.go:66), and does not index beyond the slice.
ExactAnswers ==
  \A t \in Thread :
    /\ pc[t] # "panicked"
    /\ pc[t] = "done" => Increasing(got[t]) /\ Elems(got[t]) = added

\* Where the flag is set nothing is left to do: the next goroutine that sees it
\* reads the slice without looking (setrixdb.go:75).
FlagTellsTruth == sorted => Increasing(Current) /\ Elems(Current) = added

\* Every query returns: the two loops of finalize end.
EveryQueryReturns == \A t \in Thread : pc[t] = "check" ~> pc[t] = "done"
=============================================================================
