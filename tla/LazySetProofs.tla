---------------------------- MODULE LazySetProofs ----------------------------
(***************************************************************************)
(* LazySet for any goroutines, ids and lengths, if the owner publishes     *)
(* only a set that is finalized or whose ids are in order (Careful): every *)
(* query is answered exactly, and the flag is never set too early.  What   *)
(* callers of the C ABI do to the shared set is what the goroutines do, so *)
(* that all of this holds for them, and every handle keeps its set.        *)
(***************************************************************************)
EXTENDS CApi, SetOpsProofs

-----------------------------------------------------------------------------
(* Parts of a slice *)

\* The ids at positions p..q.
Part(s, p, q) == {s[k] : k \in p..q}

Strict(s, q) == \A a, b \in 1..q : a < b => s[a] < s[b]
Ordered(s, q) == \A a, b \in 1..q : a < b => s[a] <= s[b]

\* 1..q is in order but for the id at p, which is at most those after it.
Inserting(s, p, q) ==
  /\ \A a, b \in 1..q : (a < b /\ a # p /\ b # p) => s[a] <= s[b]
  /\ \A b \in p + 1..q : s[p] <= s[b]

\* The slice of a length over an array.
LEMMA SliceFacts ==
  ASSUME NEW s \in Seq(Nat), NEW l \in 0..Len(s)
  PROVE  /\ SubSeq(s, 1, l) \in Seq(Nat) /\ Len(SubSeq(s, 1, l)) = l
         /\ \A k \in 1..l : SubSeq(s, 1, l)[k] = s[k]
         /\ Elems(SubSeq(s, 1, l)) = Part(s, 1, l)
         /\ Increasing(SubSeq(s, 1, l)) <=> Strict(s, l)
<1>1. Len(s) \in Nat /\ \A k \in 1..l : s[k] \in Nat
  BY LenProperties, ElementOfSeq
<1>2. SubSeq(s, 1, l) \in Seq(Nat) /\ Len(SubSeq(s, 1, l)) = l
      /\ \A k \in 1..l : SubSeq(s, 1, l)[k] = s[k]
  BY <1>1, SubSeqProperties
<1> DEFINE c == SubSeq(s, 1, l)
<1> HIDE DEF c
<1>3. c \in Seq(Nat) /\ Len(c) = l /\ \A k \in 1..l : c[k] = s[k]
  BY <1>2 DEF c
<1>4. DOMAIN c = 1..l
  BY <1>3, LenProperties
<1>5. Elems(c) = Part(s, 1, l)
  BY <1>3, <1>4 DEF Elems, Part
<1>6. Increasing(c) <=> Strict(s, l)
  BY <1>3, <1>4 DEF Increasing, Strict
<1> QED
  BY <1>2, <1>5, <1>6 DEF c

\* A store into the array.
LEMMA Store ==
  ASSUME NEW s \in Seq(Nat), NEW k \in 1..Len(s), NEW v \in Nat
  PROVE  /\ [s EXCEPT ![k] = v] \in Seq(Nat) /\ Len([s EXCEPT ![k] = v]) = Len(s)
         /\ \A a \in 1..Len(s) : [s EXCEPT ![k] = v][a] = IF a = k THEN v ELSE s[a]
BY ExceptSeq

\* Exchanging two ids keeps the set of ids.
LEMMA SwapKeepsPart ==
  ASSUME NEW s \in Seq(Nat), NEW u \in Seq(Nat), NEW l \in 0..Len(s), Len(u) = Len(s),
         NEW k \in 2..l, u[k] = s[k - 1], u[k - 1] = s[k],
         \A a \in 1..Len(s) : a \notin {k - 1, k} => u[a] = s[a]
  PROVE  Part(u, 1, l) = Part(s, 1, l)
<1>1. /\ Len(s) \in Nat /\ k - 1 \in 1..l /\ k \in 1..l
      /\ \A a \in 1..l : a \in 1..Len(s)
  BY LenProperties
<1>2. ASSUME NEW a \in 1..l PROVE \E b \in 1..l : u[a] = s[b]
  <2>1. CASE a = k
    BY <1>1, <2>1
  <2>2. CASE a = k - 1
    BY <1>1, <2>2
  <2>3. CASE a \notin {k - 1, k}
    BY <1>1, <2>3
  <2> QED
    BY <2>1, <2>2, <2>3
<1>3. ASSUME NEW a \in 1..l PROVE \E b \in 1..l : s[a] = u[b]
  <2>1. CASE a = k
    BY <1>1, <2>1
  <2>2. CASE a = k - 1
    BY <1>1, <2>2
  <2>3. CASE a \notin {k - 1, k}
    BY <1>1, <2>3
  <2> QED
    BY <2>1, <2>2, <2>3
<1>4. ASSUME NEW x \in Part(u, 1, l) PROVE x \in Part(s, 1, l)
  <2>1. PICK a \in 1..l : x = u[a]
    BY DEF Part
  <2>2. PICK b \in 1..l : u[a] = s[b]
    BY <1>2
  <2> QED
    BY <2>1, <2>2 DEF Part
<1>5. ASSUME NEW x \in Part(s, 1, l) PROVE x \in Part(u, 1, l)
  <2>1. PICK a \in 1..l : x = s[a]
    BY DEF Part
  <2>2. PICK b \in 1..l : s[a] = u[b]
    BY <1>3
  <2> QED
    BY <2>1, <2>2 DEF Part
<1> QED
  BY <1>4, <1>5

\* An insertion that has ended leaves one more id in order.
LEMMA InsertionEnds ==
  ASSUME NEW s \in Seq(Nat), NEW q \in 1..Len(s), NEW p \in 1..q, Inserting(s, p, q),
         p = 1 \/ s[p - 1] <= s[p]
  PROVE  Ordered(s, q)
<1>1. Len(s) \in Nat /\ \A a \in 1..q : s[a] \in Nat
  BY LenProperties, ElementOfSeq
<1> SUFFICES ASSUME NEW a \in 1..q, NEW b \in 1..q, a < b PROVE s[a] <= s[b]
  BY DEF Ordered
<1>2. CASE a # p /\ b # p
  BY <1>2 DEF Inserting
<1>3. CASE a = p
  <2>1. b \in p + 1..q
    BY <1>1, <1>3
  <2> QED
    BY <1>3, <2>1 DEF Inserting
<1>4. CASE b = p
  <2>1. s[p - 1] <= s[p] /\ p - 1 \in 1..q /\ a <= p - 1
    BY <1>1, <1>4
  <2>2. CASE a = p - 1
    BY <1>4, <2>1, <2>2
  <2>3. CASE a < p - 1
    <3>1. s[a] <= s[p - 1]
      BY <1>1, <1>4, <2>1, <2>3 DEF Inserting
    <3> QED
      BY <1>1, <1>4, <2>1, <3>1
  <2> QED
    BY <1>1, <2>1, <2>2, <2>3
<1> QED
  BY <1>2, <1>3, <1>4

\* The next id is inserted from its place.
LEMMA InsertionBegins ==
  ASSUME NEW s \in Seq(Nat), NEW q \in 0..Len(s), Ordered(s, q)
  PROVE  Inserting(s, q + 1, q + 1)
BY LenProperties DEF Ordered, Inserting

\* An id smaller than the one before it moves one place to the front.
LEMMA InsertionMoves ==
  ASSUME NEW s \in Seq(Nat), NEW u \in Seq(Nat), NEW q \in 1..Len(s), Len(u) = Len(s),
         NEW p \in 2..q, Inserting(s, p, q), s[p] < s[p - 1],
         u[p] = s[p - 1], u[p - 1] = s[p],
         \A a \in 1..Len(s) : a \notin {p - 1, p} => u[a] = s[a]
  PROVE  Inserting(u, p - 1, q)
<1>1. /\ Len(s) \in Nat /\ \A a \in 1..q : s[a] \in Nat /\ u[a] \in Nat /\ a \in 1..Len(s)
      /\ p \in Nat /\ p - 1 \in Nat /\ p - 1 \in 1..q /\ p \in 1..q
  <2>1. Len(s) \in Nat /\ \A a \in 1..q : a \in 1..Len(s) /\ a \in 1..Len(u)
    BY LenProperties
  <2>2. \A a \in 1..q : s[a] \in Nat /\ u[a] \in Nat
    BY <2>1, ElementOfSeq
  <2>3. p \in Nat /\ p - 1 \in Nat /\ p - 1 \in 1..q /\ p \in 1..q
    BY <2>1
  <2> QED
    BY <2>1, <2>2, <2>3
<1>2. ASSUME NEW a \in 1..q, NEW b \in 1..q, a < b, a # p - 1, b # p - 1
      PROVE  u[a] <= u[b]
  <2>1. CASE a # p /\ b # p
    BY <1>1, <1>2, <2>1 DEF Inserting
  <2>2. CASE b = p
    <3>1. u[a] = s[a] /\ u[b] = s[p - 1] /\ a < p - 1 /\ p - 1 \in 1..q
      BY <1>1, <1>2, <2>2
    <3>2. a # p /\ p - 1 # p
      BY <3>1
    <3>3. s[a] <= s[p - 1]
      BY <3>1, <3>2 DEF Inserting
    <3> QED
      BY <3>1, <3>3
  <2>3. CASE a = p
    <3>1. u[a] = s[p - 1] /\ u[b] = s[b] /\ p - 1 < b /\ b # p /\ p - 1 \in 1..q /\ p - 1 # p
      BY <1>1, <1>2, <2>3, SMTT(30)
    <3>2. s[p - 1] <= s[b]
      BY <3>1 DEF Inserting
    <3> QED
      BY <3>1, <3>2
  <2> QED
    BY <2>1, <2>2, <2>3
<1>3. ASSUME NEW b \in (p - 1) + 1..q PROVE u[p - 1] <= u[b]
  <2>1. CASE b = p
    BY <1>1, <2>1
  <2>2. CASE b # p
    <3>1. b \in p + 1..q /\ u[b] = s[b]
      BY <1>1, <2>2
    <3> QED
      BY <3>1 DEF Inserting
  <2> QED
    BY <2>1, <2>2
<1> QED
  BY <1>2, <1>3 DEF Inserting

-----------------------------------------------------------------------------
(* The inductive invariant *)

Content == Part(cells, 1, length) = added
Good == Strict(cells, length) /\ Content

Types ==
  /\ TypeOK
  /\ n \in [Thread -> Nat] /\ i \in [Thread -> Nat] /\ j \in [Thread -> Nat]
  /\ w \in [Thread -> Nat] /\ tmp \in [Thread -> Nat \X Nat]
  /\ got \in [Thread -> Seq(Nat)]

\* Where a goroutine's indices are; what it copies is the slice, cell by cell.
Local(t) ==
  /\ pc[t] # "panicked"
  /\ pc[t] \in {"idle", "check"} => n[t] = 0 /\ w[t] = 0
  /\ pc[t] \in {"less", "swap", "store", "store2"} =>
       2 <= j[t] /\ j[t] <= i[t] /\ i[t] <= n[t] /\ n[t] = length
  /\ pc[t] \in {"compare", "keep"} => 1 <= i[t] /\ i[t] <= n[t] /\ n[t] = length /\ w[t] < i[t]
  /\ pc[t] = "cut" => w[t] <= length
  /\ pc[t] = "flag" => w[t] = length
  /\ pc[t] = "copy" => sorted /\ w[t] <= length
  /\ pc[t] = "take" => sorted /\ n[t] = length /\ Len(got[t]) < length
  /\ pc[t] = "done" => sorted /\ Len(got[t]) = length
  /\ pc[t] \in {"take", "done"} => \A k \in 1..Len(got[t]) : got[t][k] = cells[k]

\* Before the set is published its owner may really have to sort it.
Alone(t) ==
  /\ pc[t] \in {"less", "swap", "store", "store2", "range", "compare", "keep", "cut", "flag"} =>
       ~sorted
  /\ pc[t] \in {"idle", "check", "less", "swap", "store", "range"} => Content
  /\ pc[t] \in {"less", "swap", "store"} => Inserting(cells, j[t], i[t])
  /\ pc[t] \in {"swap", "store"} => cells[j[t]] < cells[j[t] - 1]
  /\ pc[t] = "store" => tmp[t] = <<cells[j[t] - 1], cells[j[t]]>>
  /\ pc[t] = "store2" =>
       LET u == [cells EXCEPT ![j[t] - 1] = tmp[t][2]]
       IN  Inserting(u, j[t] - 1, i[t]) /\ Part(u, 1, length) = added
  /\ pc[t] = "range" => Ordered(cells, length)
  /\ pc[t] \in {"compare", "keep"} =>
       /\ Strict(cells, w[t])
       /\ \A a, b \in i[t]..length : a < b => cells[a] <= cells[b]
       /\ w[t] > 0 => \A b \in i[t]..length : cells[w[t]] <= cells[b]
       /\ Part(cells, 1, w[t]) \cup Part(cells, i[t], length) = added
  /\ pc[t] = "keep" => w[t] = 0 \/ cells[i[t]] # cells[w[t]]
  /\ pc[t] = "cut" => Strict(cells, w[t]) /\ Part(cells, 1, w[t]) = added
  /\ pc[t] = "flag" => Good

\* Afterwards goroutines go through the motions and write what is there.
Shared(t) ==
  /\ pc[t] \notin {"swap", "store", "store2"}
  /\ pc[t] = "less" => i[t] = j[t]
  /\ pc[t] \in {"compare", "keep"} => w[t] = i[t] - 1
  /\ pc[t] = "cut" => w[t] = length

Inv ==
  /\ Types
  /\ sorted => Good
  /\ \A t \in Thread : Local(t)
  /\ published => Good /\ \A t \in Thread : Shared(t)
  /\ ~published => Alone(Owner) /\ \A t \in Thread \ {Owner} : pc[t] = "idle"

LEMMA InitInv == Init => Inv
<1> SUFFICES ASSUME Init PROVE Inv
  OBVIOUS
<1> USE LazyAssumption DEF Init
<1>1. Types
  <2>1. /\ n \in [Thread -> Nat] /\ i \in [Thread -> Nat] /\ j \in [Thread -> Nat]
        /\ w \in [Thread -> Nat] /\ tmp \in [Thread -> Nat \X Nat]
        /\ got \in [Thread -> Seq(Nat)]
    OBVIOUS
  <2>2. pc \in [Thread -> Labels] /\ MaxLen \in Nat
    BY DEF Labels
  <2>3. \A t \in Thread : n[t] = 0 /\ w[t] = 0 /\ i[t] = 1 /\ j[t] = 1
    OBVIOUS
  <2>6. 0 \in 0..MaxLen /\ 0 \in 0..0 /\ 1 \in 1..MaxLen + 2
    BY <2>2
  <2>4. cells \in Seq(Nat) /\ length \in 0..Len(cells) /\ Len(cells) <= MaxLen
    BY <2>2
  <2>5. TypeOK
    BY <2>2, <2>3, <2>4, <2>6 DEF TypeOK
  <2> QED
    BY <2>1, <2>5 DEF Types
<1>2. Good
  BY DEF Good, Strict, Content, Part
<1>3. \A t \in Thread : Local(t)
  BY DEF Local
<1>4. Alone(Owner)
  BY <1>2 DEF Alone, Good
<1> QED
  BY <1>1, <1>2, <1>3, <1>4 DEF Inv

\* Locals of other goroutines are left alone, and those of t have their types.
OnlyLocals(t) ==
  /\ pc' = [pc EXCEPT ![t] = pc'[t]] /\ n' = [n EXCEPT ![t] = n'[t]]
  /\ i' = [i EXCEPT ![t] = i'[t]] /\ j' = [j EXCEPT ![t] = j'[t]]
  /\ w' = [w EXCEPT ![t] = w'[t]] /\ tmp' = [tmp EXCEPT ![t] = tmp'[t]]
  /\ got' = [got EXCEPT ![t] = got'[t]]

LocalTypes(t) ==
  /\ pc[t] \in Labels /\ n[t] \in 0..MaxLen /\ i[t] \in 1..MaxLen + 2 /\ j[t] \in 1..MaxLen + 2
  /\ w[t] \in 0..n[t] /\ tmp[t] \in Nat \X Nat /\ got[t] \in Seq(Nat)

SharedTypes ==
  /\ cells \in Seq(Nat) /\ length \in 0..Len(cells) /\ Len(cells) <= MaxLen
  /\ sorted \in BOOLEAN /\ published \in BOOLEAN

\* The types, with those of the numbers spelled out.
LEMMA Kept ==
  ASSUME Types, NEW t \in Thread
  PROVE  /\ LocalTypes(t) /\ SharedTypes
         /\ MaxLen \in Nat /\ Len(cells) \in Nat /\ length \in Nat /\ length <= MaxLen
         /\ n[t] \in Nat /\ i[t] \in Nat /\ j[t] \in Nat /\ w[t] \in Nat
         /\ \A k \in 1..Len(cells) : cells[k] \in Nat
<1>1. Len(cells) \in Nat /\ \A k \in 1..Len(cells) : cells[k] \in Nat
  BY LenProperties, ElementOfSeq DEF Types, TypeOK
<1>2. MaxLen \in Nat
  BY LazyAssumption
<1>3. LocalTypes(t) /\ SharedTypes
  BY DEF LocalTypes, SharedTypes, Types, TypeOK
<1>4. n[t] \in Nat /\ i[t] \in Nat /\ j[t] \in Nat /\ w[t] \in Nat
  BY DEF Types
<1>5. length \in Nat /\ length <= MaxLen
  BY <1>1, <1>2, <1>3 DEF SharedTypes
<1> QED
  BY <1>1, <1>2, <1>3, <1>4, <1>5

LEMMA TypesAfter ==
  ASSUME Types, NEW t \in Thread, OnlyLocals(t), LocalTypes(t)', SharedTypes'
  PROVE  Types'
<1>1. MaxLen \in Nat /\ n'[t] \in Nat /\ i'[t] \in Nat /\ j'[t] \in Nat /\ w'[t] \in Nat
  <2>1. MaxLen \in Nat
    BY LazyAssumption
  <2> QED
    BY <2>1 DEF LocalTypes
<1>2. /\ n' \in [Thread -> Nat] /\ i' \in [Thread -> Nat] /\ j' \in [Thread -> Nat]
      /\ w' \in [Thread -> Nat]
  BY <1>1 DEF Types, OnlyLocals
<1>3. tmp' \in [Thread -> Nat \X Nat] /\ got' \in [Thread -> Seq(Nat)] /\ pc' \in [Thread -> Labels]
  BY DEF Types, TypeOK, OnlyLocals, LocalTypes
<1>4. \A x \in Thread : /\ n'[x] \in 0..MaxLen /\ w'[x] \in 0..n'[x]
                       /\ i'[x] \in 1..MaxLen + 2 /\ j'[x] \in 1..MaxLen + 2
  <2> TAKE x \in Thread
  <2>1. CASE x = t
    BY <2>1 DEF LocalTypes
  <2>2. CASE x # t
    <3>1. n'[x] = n[x] /\ w'[x] = w[x] /\ i'[x] = i[x] /\ j'[x] = j[x]
      BY <2>2 DEF Types, OnlyLocals
    <3> QED
      BY <3>1 DEF Types, TypeOK
  <2> QED
    BY <2>1, <2>2
<1> QED
  BY <1>2, <1>3, <1>4 DEF Types, TypeOK, SharedTypes

\* A step of one goroutine: what remains to be shown of it.
LEMMA Frame ==
  ASSUME Inv, NEW t \in Thread, UNCHANGED <<published, added>>,
         ~published => t = Owner,
         published => UNCHANGED <<cells, length>> /\ (sorted => sorted') /\ Shared(t)',
         OnlyLocals(t), LocalTypes(t)', SharedTypes',
         Local(t)', sorted' => Good', ~published => Alone(t)'
  PROVE  Inv'
<1>1. ASSUME NEW d \in Thread, d # t
      PROVE  /\ pc'[d] = pc[d] /\ n'[d] = n[d] /\ i'[d] = i[d] /\ j'[d] = j[d]
             /\ w'[d] = w[d] /\ got'[d] = got[d]
  BY <1>1 DEF Inv, Types, TypeOK, OnlyLocals
<1>5. Types'
  BY TypesAfter DEF Inv
<1>2. ASSUME NEW d \in Thread PROVE Local(d)'
  <2>1. CASE d = t
    BY <2>1
  <2>2. CASE d # t /\ published
    <3>1. Local(d)
      BY DEF Inv
    <3> QED
      BY <1>1, <2>2, <3>1 DEF Local
  <2>3. CASE d # t /\ ~published
    <3>1. Local(d) /\ pc[d] = "idle"
      BY <2>3 DEF Inv
    <3> QED
      BY <1>1, <2>3, <3>1 DEF Local
  <2> QED
    BY <2>1, <2>2, <2>3
<1>3. ASSUME published PROVE Good' /\ \A d \in Thread : Shared(d)'
  <2>1. Good'
    BY <1>3 DEF Inv, Good, Content
  <2>2. ASSUME NEW d \in Thread, d # t PROVE Shared(d)'
    BY <1>1, <1>3, <2>2 DEF Inv, Shared
  <2> QED
    BY <1>3, <2>1, <2>2
<1>4. ASSUME ~published PROVE Alone(Owner)' /\ \A d \in Thread \ {Owner} : pc'[d] = "idle"
  BY <1>1, <1>4 DEF Inv
<1> QED
  BY <1>2, <1>3, <1>4, <1>5 DEF Inv

LEMMA CheckInv ==
  ASSUME Inv, NEW t \in Thread, CheckSorted(t)
  PROVE  Inv'
<1> DEFINE l == IF sorted THEN "copy" ELSE IF length < 2 THEN "range" ELSE "less"
<1>1. Types /\ Local(t) /\ pc[t] = "check" /\ n[t] = 0 /\ w[t] = 0
  BY DEF Inv, Local, CheckSorted
<1>2. /\ n' = [n EXCEPT ![t] = length] /\ i' = [i EXCEPT ![t] = 2] /\ j' = [j EXCEPT ![t] = 2]
      /\ pc' = [pc EXCEPT ![t] = l]
      /\ UNCHANGED <<cells, length, sorted, published, w, tmp, got, added>>
  BY DEF CheckSorted, Goto, shared
<1>3. \/ l = "copy" /\ sorted
      \/ l = "range" /\ length < 2 /\ ~sorted
      \/ l = "less" /\ ~(length < 2) /\ ~sorted
  OBVIOUS
<1> HIDE DEF l
<1>4. LocalTypes(t) /\ SharedTypes /\ length \in Nat /\ length <= MaxLen /\ MaxLen \in Nat
  BY <1>1, Kept
<1>5. /\ OnlyLocals(t) /\ SharedTypes'
      /\ pc'[t] = l /\ n'[t] = length /\ i'[t] = 2 /\ j'[t] = 2 /\ w'[t] = 0
      /\ tmp'[t] = tmp[t] /\ got'[t] = got[t]
  BY <1>1, <1>2, <1>4 DEF Types, TypeOK, OnlyLocals, SharedTypes
<1>6. LocalTypes(t)'
  <2>1. l \in Labels /\ 2 \in 1..MaxLen + 2 /\ length \in 0..MaxLen /\ 0 \in 0..length
    BY <1>3, <1>4 DEF Labels
  <2> QED
    BY <1>4, <1>5, <2>1 DEF LocalTypes
<1>7. Local(t)'
  BY <1>2, <1>3, <1>4, <1>5 DEF Local
<1>8. ASSUME ~published PROVE t = Owner /\ Alone(t)'
  <2>1. t = Owner /\ Content
    BY <1>1, <1>8 DEF Inv, Alone
  <2>2. length < 2 => Ordered(cells, length)
    BY <1>4 DEF Ordered
  <2>3. Inserting(cells, 2, 2)
    BY DEF Inserting
  <2> QED
    BY <1>2, <1>3, <1>5, <2>1, <2>2, <2>3 DEF Alone, Content
<1>9. Shared(t)'
  BY <1>3, <1>5 DEF Shared
<1>10. sorted' => Good'
  BY <1>2 DEF Inv, Good, Content
<1> QED
  BY <1>2, <1>5, <1>6, <1>7, <1>8, <1>9, <1>10, Frame

\* The sort of the first ids is over: the next one, or the sweep.
LEMMA NextElementInv ==
  ASSUME Inv, NEW t \in Thread, pc[t] \in {"less", "store2"}, NextElement(t),
         UNCHANGED <<length, sorted, published, n, w, tmp, got, added>>, SharedTypes',
         Len(cells') = Len(cells), published => UNCHANGED cells /\ i[t] = j[t],
         ~published => Ordered(cells', i[t]) /\ Content'
  PROVE  Inv'
<1> DEFINE l == IF i[t] = n[t] THEN "range" ELSE "less"
<1>1. /\ Types /\ Local(t) /\ 2 <= i[t] /\ i[t] <= n[t] /\ n[t] = length
      /\ i[t] \in Nat /\ j[t] \in Nat /\ length \in Nat /\ length <= MaxLen /\ MaxLen \in Nat
      /\ LocalTypes(t) /\ length <= Len(cells) /\ Len(cells) \in Nat
  <2>1. Types /\ Local(t)
    BY DEF Inv
  <2>2. /\ i[t] \in Nat /\ j[t] \in Nat /\ length \in Nat /\ length <= MaxLen /\ MaxLen \in Nat
        /\ LocalTypes(t) /\ SharedTypes /\ Len(cells) \in Nat
    BY <2>1, Kept
  <2>3. 2 <= j[t] /\ j[t] <= i[t] /\ i[t] <= n[t] /\ n[t] = length
    BY <2>1 DEF Local
  <2> QED
    BY <2>1, <2>2, <2>3 DEF SharedTypes
<1>2. /\ i' = [i EXCEPT ![t] = i[t] + 1] /\ j' = [j EXCEPT ![t] = i[t] + 1]
      /\ pc' = [pc EXCEPT ![t] = l]
  BY DEF NextElement, Goto
<1>3. (l = "range" /\ i[t] = length) \/ (l = "less" /\ i[t] + 1 <= length)
  BY <1>1
<1> HIDE DEF l
<1>4. /\ OnlyLocals(t)
      /\ pc'[t] = l /\ n'[t] = length /\ i'[t] = i[t] + 1 /\ j'[t] = i[t] + 1 /\ w'[t] = w[t]
      /\ tmp'[t] = tmp[t] /\ got'[t] = got[t]
  BY <1>1, <1>2 DEF Types, TypeOK, OnlyLocals
<1>5. LocalTypes(t)'
  <2>1. l \in Labels /\ i[t] + 1 \in 1..MaxLen + 2 /\ w[t] \in 0..length /\ length \in 0..MaxLen
    BY <1>1, <1>3 DEF Labels, LocalTypes
  <2> QED
    BY <1>1, <1>4, <2>1 DEF LocalTypes
<1>6. Local(t)'
  BY <1>1, <1>3, <1>4 DEF Local
<1>7. ASSUME ~published PROVE t = Owner /\ Alone(t)'
  <2>1. t = Owner /\ ~sorted
    BY <1>7 DEF Inv, Alone
  <2>2. l = "less" => Inserting(cells', i[t] + 1, i[t] + 1)
    <3>1. cells' \in Seq(Nat) /\ i[t] \in 0..Len(cells')
      BY <1>1 DEF SharedTypes
    <3> QED
      BY <1>7, <3>1, InsertionBegins
  <2> QED
    BY <1>3, <1>4, <1>7, <2>1, <2>2 DEF Alone, Content
<1>8. published => Shared(t)'
  BY <1>3, <1>4 DEF Shared
<1>9. sorted' => Good'
  BY <1>7 DEF Inv, Good, Content, Alone
<1> QED
  BY <1>4, <1>5, <1>6, <1>7, <1>8, <1>9, Frame

LEMMA LessInv ==
  ASSUME Inv, NEW t \in Thread, Less(t)
  PROVE  Inv'
<1>1. /\ Types /\ Local(t) /\ pc[t] = "less"
      /\ 2 <= j[t] /\ j[t] <= i[t] /\ i[t] <= n[t] /\ n[t] = length
  BY DEF Inv, Local, Less
<1>2. /\ i[t] \in Nat /\ j[t] \in Nat /\ length \in Nat /\ LocalTypes(t) /\ SharedTypes
      /\ \A k \in 1..Len(cells) : cells[k] \in Nat
      /\ Len(cells) \in Nat /\ length <= Len(cells)
  BY <1>1, Kept DEF SharedTypes
<1>3. /\ UNCHANGED <<cells, length, sorted, published, n, w, tmp, got, added>>
      /\ ~(j[t] > length) /\ cells[j[t]] \in Nat /\ cells[j[t] - 1] \in Nat
  BY <1>1, <1>2 DEF Less, shared
<1>4. ~published => t = Owner /\ Alone(t) /\ ~sorted /\ Content /\ Inserting(cells, j[t], i[t])
  BY <1>1 DEF Inv, Alone
<1>5. published => Good /\ i[t] = j[t]
  BY <1>1 DEF Inv, Shared
<1>6. SharedTypes'
  BY <1>2, <1>3 DEF SharedTypes
<1>7. CASE cells[j[t]] < cells[j[t] - 1]
  <2>1. ~published
    <3> SUFFICES ASSUME published PROVE FALSE
      OBVIOUS
    <3>1. j[t] \in 1..length /\ j[t] - 1 \in 1..length /\ j[t] - 1 < j[t]
      BY <1>1, <1>2
    <3>2. cells[j[t] - 1] < cells[j[t]]
      BY <1>5, <3>1 DEF Good, Strict
    <3> QED
      BY <1>3, <1>7, <3>2
  <2>2. pc' = [pc EXCEPT ![t] = "swap"] /\ i' = i /\ j' = j
    BY <1>3, <1>7 DEF Less, Goto
  <2>3. /\ OnlyLocals(t)
        /\ pc'[t] = "swap" /\ n'[t] = n[t] /\ i'[t] = i[t] /\ j'[t] = j[t] /\ w'[t] = w[t]
        /\ tmp'[t] = tmp[t] /\ got'[t] = got[t]
    BY <1>1, <1>3, <2>2 DEF Types, TypeOK, OnlyLocals
  <2>4. LocalTypes(t)'
    BY <1>2, <2>3 DEF LocalTypes, Labels
  <2>5. Local(t)'
    BY <1>1, <1>3, <2>3 DEF Local
  <2>6. Alone(t)' /\ (sorted' => Good')
    BY <1>3, <1>4, <1>7, <2>1, <2>2, <2>3 DEF Alone, Content
  <2> QED
    BY <1>3, <1>4, <1>6, <2>1, <2>3, <2>4, <2>5, <2>6, Frame
<1>8. CASE ~(cells[j[t]] < cells[j[t] - 1])
  <2>1. NextElement(t)
    BY <1>3, <1>8 DEF Less
  <2>2. ASSUME ~published PROVE Ordered(cells', i[t]) /\ Content'
    <3>1. cells \in Seq(Nat) /\ Inserting(cells, j[t], i[t])
      BY <1>2, <1>4, <2>2 DEF SharedTypes
    <3>2. i[t] \in 1..Len(cells) /\ j[t] \in 1..i[t]
      BY <1>1, <1>2
    <3>3. cells[j[t] - 1] <= cells[j[t]]
      BY <1>3, <1>8
    <3>4. Ordered(cells, i[t])
      BY <3>1, <3>2, <3>3, InsertionEnds
    <3> QED
      BY <1>3, <1>4, <2>2, <3>4 DEF Content
  <2> QED
    BY <1>1, <1>3, <1>5, <1>6, <2>1, <2>2, NextElementInv
<1> QED
  BY <1>7, <1>8

\* What is known of a goroutine that is exchanging two ids: it is the owner.
LEMMA SwapFacts ==
  ASSUME Inv, NEW t \in Thread, pc[t] \in {"swap", "store", "store2"}
  PROVE  /\ Types /\ Local(t) /\ Alone(t) /\ ~published /\ t = Owner /\ ~sorted
         /\ LocalTypes(t) /\ SharedTypes
         /\ j[t] \in 2..i[t] /\ j[t] - 1 \in 1..Len(cells) /\ j[t] \in 1..Len(cells)
         /\ i[t] \in 1..length /\ i[t] \in 1..Len(cells) /\ i[t] <= n[t] /\ n[t] = length
         /\ i[t] \in Nat /\ j[t] \in Nat /\ length \in Nat /\ length <= Len(cells)
         /\ tmp[t] \in Nat \X Nat /\ cells \in Seq(Nat)
         /\ \A k \in 1..Len(cells) : cells[k] \in Nat
<1>1. /\ Types /\ Local(t) /\ 2 <= j[t] /\ j[t] <= i[t] /\ i[t] <= n[t] /\ n[t] = length
  BY DEF Inv, Local
<1>2. /\ i[t] \in Nat /\ j[t] \in Nat /\ length \in Nat /\ LocalTypes(t) /\ SharedTypes
      /\ \A k \in 1..Len(cells) : cells[k] \in Nat
      /\ Len(cells) \in Nat /\ length <= Len(cells) /\ cells \in Seq(Nat) /\ tmp[t] \in Nat \X Nat
  BY <1>1, Kept DEF SharedTypes, LocalTypes
<1>3. ~published
  BY DEF Inv, Shared
<1>4. t = Owner /\ Alone(t)
  BY <1>3 DEF Inv
<1>5. ~sorted
  BY <1>4 DEF Alone
<1>6. /\ j[t] \in 2..i[t] /\ j[t] - 1 \in 1..Len(cells) /\ j[t] \in 1..Len(cells)
      /\ i[t] \in 1..length /\ i[t] \in 1..Len(cells)
  <2> DEFINE a == i[t]  b == j[t]  c == Len(cells)
  <2>1. /\ a \in Nat /\ b \in Nat /\ c \in Nat /\ length \in Nat
        /\ 2 <= b /\ b <= a /\ a <= length /\ length <= c
    BY <1>1, <1>2
  <2> HIDE DEF a, b, c
  <2>2. b \in 2..a /\ b - 1 \in 1..c /\ b \in 1..c /\ a \in 1..length /\ a \in 1..c
    BY <2>1
  <2> QED
    BY <2>2 DEF a, b, c
<1> QED
  BY <1>1, <1>2, <1>3, <1>4, <1>5, <1>6

LEMMA SwapLoadInv ==
  ASSUME Inv, NEW t \in Thread, SwapLoad(t)
  PROVE  Inv'
<1>1. /\ pc[t] = "swap" /\ UNCHANGED <<cells, length, sorted, published, n, i, j, w, got, added>>
      /\ tmp' = [tmp EXCEPT ![t] = <<cells[j[t] - 1], cells[j[t]]>>]
      /\ pc' = [pc EXCEPT ![t] = "store"]
  BY DEF SwapLoad, Goto, shared
<1>2. /\ Types /\ Local(t) /\ Alone(t) /\ ~published /\ t = Owner /\ ~sorted
      /\ LocalTypes(t) /\ SharedTypes /\ cells[j[t]] \in Nat /\ cells[j[t] - 1] \in Nat
  BY <1>1, SwapFacts
<1>3. /\ OnlyLocals(t) /\ SharedTypes'
      /\ pc'[t] = "store" /\ n'[t] = n[t] /\ i'[t] = i[t] /\ j'[t] = j[t] /\ w'[t] = w[t]
      /\ tmp'[t] = <<cells[j[t] - 1], cells[j[t]]>> /\ got'[t] = got[t]
  BY <1>1, <1>2 DEF Types, TypeOK, OnlyLocals, SharedTypes
<1>4. LocalTypes(t)'
  <2>1. tmp'[t] \in Nat \X Nat /\ "store" \in Labels
    BY <1>2, <1>3 DEF Labels
  <2> QED
    BY <1>2, <1>3, <2>1 DEF LocalTypes
<1>5. Local(t)'
  BY <1>1, <1>2, <1>3 DEF Local
<1>6. Alone(t)'
  BY <1>1, <1>2, <1>3 DEF Alone, Content
<1> QED
  BY <1>1, <1>2, <1>3, <1>4, <1>5, <1>6, Frame

LEMMA SwapStoreInv ==
  ASSUME Inv, NEW t \in Thread, SwapStore(t)
  PROVE  Inv'
<1>1. /\ pc[t] = "store"
      /\ UNCHANGED <<length, sorted, published, n, i, j, w, tmp, got, added>>
      /\ cells' = [cells EXCEPT ![j[t]] = tmp[t][1]]
      /\ pc' = [pc EXCEPT ![t] = "store2"]
  BY DEF SwapStore, Goto, locals
<1>2. /\ Types /\ Local(t) /\ Alone(t) /\ ~published /\ t = Owner /\ ~sorted
      /\ LocalTypes(t) /\ SharedTypes
      /\ j[t] \in 2..i[t] /\ j[t] - 1 \in 1..Len(cells) /\ j[t] \in 1..Len(cells)
      /\ i[t] \in 1..length /\ i[t] \in 1..Len(cells) /\ length <= Len(cells)
      /\ i[t] \in Nat /\ j[t] \in Nat /\ length \in Nat
      /\ tmp[t] \in Nat \X Nat /\ cells \in Seq(Nat)
      /\ \A k \in 1..Len(cells) : cells[k] \in Nat
  BY <1>1, SwapFacts
<1>3. /\ tmp[t][1] = cells[j[t] - 1] /\ tmp[t][2] = cells[j[t]]
      /\ tmp[t][1] \in Nat /\ tmp[t][2] \in Nat
      /\ cells[j[t]] < cells[j[t] - 1] /\ Inserting(cells, j[t], i[t]) /\ Content
  <2>1. tmp[t] = <<cells[j[t] - 1], cells[j[t]]>>
    BY <1>1, <1>2 DEF Alone
  <2>2. cells[j[t]] < cells[j[t] - 1] /\ Inserting(cells, j[t], i[t]) /\ Content
    BY <1>1, <1>2 DEF Alone
  <2> QED
    BY <1>2, <2>1, <2>2
<1>4. /\ cells' \in Seq(Nat) /\ Len(cells') = Len(cells)
      /\ \A a \in 1..Len(cells) : cells'[a] = IF a = j[t] THEN tmp[t][1] ELSE cells[a]
  <2>1. /\ cells \in Seq(Nat) /\ j[t] \in 1..Len(cells) /\ tmp[t][1] \in Nat
        /\ cells' = [cells EXCEPT ![j[t]] = tmp[t][1]]
    BY <1>1, <1>2, <1>3
  <2> QED
    BY <2>1, Store
<1> DEFINE u == [cells' EXCEPT ![j[t] - 1] = tmp[t][2]]
<1>5. /\ u \in Seq(Nat) /\ Len(u) = Len(cells)
      /\ \A a \in 1..Len(cells) : u[a] = IF a = j[t] - 1 THEN tmp[t][2] ELSE cells'[a]
  <2> DEFINE s == cells'
  <2>1. s \in Seq(Nat) /\ j[t] - 1 \in 1..Len(s) /\ tmp[t][2] \in Nat /\ Len(s) = Len(cells)
    BY <1>2, <1>3, <1>4
  <2> HIDE DEF s
  <2>2. /\ [s EXCEPT ![j[t] - 1] = tmp[t][2]] \in Seq(Nat)
        /\ Len([s EXCEPT ![j[t] - 1] = tmp[t][2]]) = Len(s)
        /\ \A a \in 1..Len(s) :
             [s EXCEPT ![j[t] - 1] = tmp[t][2]][a] = IF a = j[t] - 1 THEN tmp[t][2] ELSE s[a]
    BY <2>1, Store
  <2> QED
    BY <2>1, <2>2 DEF s
<1> HIDE DEF u
<1>6. /\ u[j[t]] = cells[j[t] - 1] /\ u[j[t] - 1] = cells[j[t]]
      /\ \A a \in 1..Len(cells) : a \notin {j[t] - 1, j[t]} => u[a] = cells[a]
  BY <1>2, <1>3, <1>4, <1>5
<1>7. Inserting(u, j[t] - 1, i[t])
  BY <1>2, <1>3, <1>5, <1>6, InsertionMoves
<1>8. Part(u, 1, length) = added
  <2>1. j[t] \in 2..length /\ length \in 0..Len(cells)
    BY <1>2
  <2>2. Part(u, 1, length) = Part(cells, 1, length)
    BY <1>2, <1>5, <1>6, <2>1, SwapKeepsPart
  <2> QED
    BY <1>3, <2>2 DEF Content
<1>9. /\ OnlyLocals(t)
      /\ pc'[t] = "store2" /\ n'[t] = n[t] /\ i'[t] = i[t] /\ j'[t] = j[t] /\ w'[t] = w[t]
      /\ tmp'[t] = tmp[t] /\ got'[t] = got[t]
  BY <1>1, <1>2 DEF Types, TypeOK, OnlyLocals
<1>10. SharedTypes' /\ LocalTypes(t)'
  BY <1>1, <1>2, <1>4, <1>9 DEF SharedTypes, LocalTypes, Labels
<1>11. Local(t)'
  BY <1>1, <1>2, <1>9 DEF Local
<1>12. Alone(t)'
  BY <1>1, <1>2, <1>7, <1>8, <1>9 DEF Alone, u
<1> QED
  BY <1>1, <1>2, <1>9, <1>10, <1>11, <1>12, Frame

LEMMA SwapStoredInv ==
  ASSUME Inv, NEW t \in Thread, SwapStored(t)
  PROVE  Inv'
<1>1. /\ pc[t] = "store2"
      /\ UNCHANGED <<length, sorted, published, n, w, tmp, got, added>>
      /\ cells' = [cells EXCEPT ![j[t] - 1] = tmp[t][2]]
  BY DEF SwapStored
<1>2. /\ Types /\ Local(t) /\ Alone(t) /\ ~published /\ t = Owner /\ ~sorted
      /\ LocalTypes(t) /\ SharedTypes
      /\ j[t] \in 2..i[t] /\ j[t] - 1 \in 1..Len(cells) /\ i[t] <= n[t] /\ n[t] = length
      /\ i[t] \in 1..length /\ i[t] \in 1..Len(cells) /\ length <= Len(cells)
      /\ i[t] \in Nat /\ j[t] \in Nat /\ length \in Nat
      /\ tmp[t] \in Nat \X Nat /\ cells \in Seq(Nat)
  BY <1>1, SwapFacts
<1>3. Inserting(cells', j[t] - 1, i[t]) /\ Part(cells', 1, length) = added
  BY <1>1, <1>2 DEF Alone
<1>4. cells' \in Seq(Nat) /\ Len(cells') = Len(cells) /\ tmp[t][2] \in Nat
  <2>1. /\ cells \in Seq(Nat) /\ j[t] - 1 \in 1..Len(cells) /\ tmp[t][2] \in Nat
        /\ cells' = [cells EXCEPT ![j[t] - 1] = tmp[t][2]]
    BY <1>1, <1>2
  <2> QED
    BY <2>1, Store
<1>5. SharedTypes' /\ Content'
  BY <1>1, <1>2, <1>3, <1>4 DEF SharedTypes, Content
<1>6. CASE j[t] = 2
  <2>1. NextElement(t)
    BY <1>6 DEF SwapStored
  <2>2. Ordered(cells', i[t])
    <3>1. Inserting(cells', 1, i[t]) /\ 1 \in 1..i[t] /\ i[t] \in 1..Len(cells')
      BY <1>2, <1>3, <1>4, <1>6
    <3> QED
      BY <1>4, <3>1, InsertionEnds
  <2> QED
    BY <1>1, <1>2, <1>4, <1>5, <2>1, <2>2, NextElementInv
<1>7. CASE j[t] # 2
  <2>1. /\ i' = i /\ j' = [j EXCEPT ![t] = j[t] - 1] /\ pc' = [pc EXCEPT ![t] = "less"]
    BY <1>7 DEF SwapStored, Goto
  <2>2. /\ OnlyLocals(t)
        /\ pc'[t] = "less" /\ n'[t] = n[t] /\ i'[t] = i[t] /\ j'[t] = j[t] - 1 /\ w'[t] = w[t]
        /\ tmp'[t] = tmp[t] /\ got'[t] = got[t]
    BY <1>1, <1>2, <2>1 DEF Types, TypeOK, OnlyLocals
  <2>3. LocalTypes(t)'
    <3>1. j[t] - 1 \in 1..MaxLen + 2 /\ "less" \in Labels
      BY <1>2, LazyAssumption DEF LocalTypes, Labels
    <3> QED
      BY <1>2, <2>2, <3>1 DEF LocalTypes
  <2>4. Local(t)'
    BY <1>1, <1>2, <1>7, <2>2, SMTT(30) DEF Local
  <2>5. Alone(t)'
    BY <1>1, <1>2, <1>3, <1>5, <2>2 DEF Alone
  <2> QED
    BY <1>1, <1>2, <1>5, <2>2, <2>3, <2>4, <2>5, Frame
<1> QED
  BY <1>6, <1>7

LEMMA TakeRangeInv ==
  ASSUME Inv, NEW t \in Thread, TakeRange(t)
  PROVE  Inv'
<1> DEFINE l == IF length = 0 THEN "cut" ELSE "compare"
<1>1. Types /\ Local(t) /\ pc[t] = "range"
  BY DEF Inv, TakeRange
<1>2. /\ n' = [n EXCEPT ![t] = length] /\ i' = [i EXCEPT ![t] = 1] /\ w' = [w EXCEPT ![t] = 0]
      /\ pc' = [pc EXCEPT ![t] = l]
      /\ UNCHANGED <<cells, length, sorted, published, j, tmp, got, added>>
  BY DEF TakeRange, Goto, shared
<1>3. (l = "cut" /\ length = 0) \/ (l = "compare" /\ length # 0)
  OBVIOUS
<1> HIDE DEF l
<1>4. LocalTypes(t) /\ SharedTypes /\ length \in Nat /\ length <= MaxLen /\ MaxLen \in Nat
  BY <1>1, Kept
<1>5. /\ OnlyLocals(t) /\ SharedTypes'
      /\ pc'[t] = l /\ n'[t] = length /\ i'[t] = 1 /\ j'[t] = j[t] /\ w'[t] = 0
      /\ tmp'[t] = tmp[t] /\ got'[t] = got[t]
  BY <1>1, <1>2, <1>4 DEF Types, TypeOK, OnlyLocals, SharedTypes
<1>6. LocalTypes(t)'
  <2>1. l \in Labels /\ 1 \in 1..MaxLen + 2 /\ length \in 0..MaxLen /\ 0 \in 0..length
    BY <1>3, <1>4 DEF Labels
  <2> QED
    BY <1>4, <1>5, <2>1 DEF LocalTypes
<1>7. Local(t)'
  BY <1>2, <1>3, <1>4, <1>5 DEF Local
<1>8. ASSUME ~published PROVE t = Owner /\ Alone(t)'
  <2>1. t = Owner /\ Content /\ Ordered(cells, length) /\ ~sorted
    BY <1>1, <1>8 DEF Inv, Alone
  <2>2. Strict(cells, 0) /\ Part(cells, 1, 0) = {}
    BY DEF Strict, Part
  <2>3. l = "cut" => Part(cells, 1, 0) = added
    BY <1>3, <2>1 DEF Content
  <2> QED
    BY <1>2, <1>3, <1>5, <2>1, <2>2, <2>3 DEF Alone, Content, Ordered
<1>9. Shared(t)'
  BY <1>2, <1>3, <1>5 DEF Shared
<1>10. sorted' => Good'
  BY <1>2 DEF Inv, Good, Content
<1> QED
  BY <1>2, <1>5, <1>6, <1>7, <1>8, <1>9, <1>10, Frame

\* What is known of a goroutine in the sweep.
LEMMA SweepFacts ==
  ASSUME Inv, NEW t \in Thread, pc[t] \in {"compare", "keep"}
  PROVE  /\ Types /\ Local(t) /\ LocalTypes(t) /\ SharedTypes
         /\ i[t] \in 1..length /\ n[t] = length /\ w[t] \in 0..i[t] - 1
         /\ length \in 0..Len(cells) /\ Len(cells) \in Nat /\ length <= MaxLen /\ MaxLen \in Nat
         /\ cells \in Seq(Nat) /\ \A k \in 1..length : k \in 1..Len(cells) /\ cells[k] \in Nat
         /\ published => Good /\ w[t] = i[t] - 1
         /\ ~published => t = Owner /\ Alone(t) /\ ~sorted
<1>1. /\ Types /\ Local(t) /\ 1 <= i[t] /\ i[t] <= n[t] /\ n[t] = length /\ w[t] < i[t]
  BY DEF Inv, Local
<1>2. /\ i[t] \in Nat /\ w[t] \in Nat /\ length \in Nat /\ LocalTypes(t) /\ SharedTypes
      /\ \A k \in 1..Len(cells) : cells[k] \in Nat /\ MaxLen \in Nat /\ length <= MaxLen
      /\ Len(cells) \in Nat /\ length <= Len(cells) /\ cells \in Seq(Nat)
  BY <1>1, Kept DEF SharedTypes
<1>3. i[t] \in 1..length /\ w[t] \in 0..i[t] - 1 /\ length \in 0..Len(cells)
  BY <1>1, <1>2
<1>4. published => Good /\ w[t] = i[t] - 1
  BY DEF Inv, Shared
<1>5. ~published => t = Owner /\ Alone(t)
  BY DEF Inv
<1>6. ~published => ~sorted
  BY <1>5 DEF Alone
<1>7. length <= MaxLen /\ MaxLen \in Nat
  BY <1>1, Kept
<1>8. \A k \in 1..length : k \in 1..Len(cells) /\ cells[k] \in Nat
  BY <1>2
<1> QED
  BY <1>1, <1>2, <1>3, <1>4, <1>5, <1>6, <1>7, <1>8

\* The sweep goes on to the next id, or ends; here the cells may have changed.
LEMMA SweepInv ==
  ASSUME Inv, NEW t \in Thread, pc[t] \in {"compare", "keep"},
         i' = [i EXCEPT ![t] = i[t] + 1],
         pc' = [pc EXCEPT ![t] = IF i[t] = n[t] THEN "cut" ELSE "compare"],
         NEW v \in 0..i[t], w' = [w EXCEPT ![t] = v],
         UNCHANGED <<length, sorted, published, n, j, tmp, got, added>>, SharedTypes',
         published => UNCHANGED cells /\ v = i[t],
         ~published => /\ Strict(cells', v)
                       /\ \A a, b \in i[t] + 1..length : a < b => cells'[a] <= cells'[b]
                       /\ v > 0 => \A b \in i[t] + 1..length : cells'[v] <= cells'[b]
                       /\ Part(cells', 1, v) \cup Part(cells', i[t] + 1, length) = added
  PROVE  Inv'
<1> DEFINE l == IF i[t] = n[t] THEN "cut" ELSE "compare"
<1>1. /\ Types /\ Local(t) /\ LocalTypes(t) /\ SharedTypes
      /\ i[t] \in 1..length /\ n[t] = length
      /\ length \in 0..Len(cells) /\ Len(cells) \in Nat /\ length <= MaxLen /\ MaxLen \in Nat
      /\ published => Good
      /\ ~published => t = Owner /\ ~sorted
  BY SweepFacts
<1>2. (l = "cut" /\ i[t] = length) \/ (l = "compare" /\ i[t] + 1 <= length)
  BY <1>1
<1>3. pc' = [pc EXCEPT ![t] = l]
  OBVIOUS
<1> HIDE DEF l
<1>4. /\ OnlyLocals(t)
      /\ pc'[t] = l /\ n'[t] = length /\ i'[t] = i[t] + 1 /\ j'[t] = j[t] /\ w'[t] = v
      /\ tmp'[t] = tmp[t] /\ got'[t] = got[t]
  BY <1>1, <1>3 DEF Types, TypeOK, OnlyLocals
<1>5. LocalTypes(t)'
  <2>1. l \in Labels /\ i[t] + 1 \in 1..MaxLen + 2 /\ length \in 0..MaxLen /\ v \in 0..length
    BY <1>1, <1>2 DEF Labels
  <2> QED
    BY <1>1, <1>4, <2>1 DEF LocalTypes
<1>6. Local(t)'
  BY <1>1, <1>2, <1>4 DEF Local
<1>7. ASSUME ~published PROVE Alone(t)'
  <2>1. CASE l = "compare"
    BY <1>1, <1>4, <1>7, <2>1 DEF Alone
  <2>2. CASE l = "cut"
    <3>1. Part(cells', i[t] + 1, length) = {}
      BY <1>1, <1>2, <2>2 DEF Part
    <3> QED
      BY <1>1, <1>4, <1>7, <2>2, <3>1 DEF Alone
  <2> QED
    BY <1>2, <2>1, <2>2
<1>8. published => Shared(t)'
  BY <1>1, <1>2, <1>4 DEF Shared
<1>9. sorted' => Good'
  BY <1>1 DEF Good, Content
<1> QED
  BY <1>1, <1>4, <1>5, <1>6, <1>7, <1>8, <1>9, Frame

LEMMA CompareInv ==
  ASSUME Inv, NEW t \in Thread, Compare(t)
  PROVE  Inv'
<1>1. /\ pc[t] = "compare"
      /\ UNCHANGED <<cells, length, sorted, published, n, w, tmp, got, added>>
  BY DEF Compare, shared
<1>2. /\ Types /\ Local(t) /\ LocalTypes(t) /\ SharedTypes
      /\ i[t] \in 1..length /\ n[t] = length /\ w[t] \in 0..i[t] - 1
      /\ length \in 0..Len(cells) /\ Len(cells) \in Nat /\ length <= MaxLen /\ MaxLen \in Nat
      /\ cells \in Seq(Nat) /\ \A k \in 1..length : k \in 1..Len(cells) /\ cells[k] \in Nat
      /\ published => Good /\ w[t] = i[t] - 1
      /\ ~published => t = Owner /\ Alone(t) /\ ~sorted
  BY <1>1, SweepFacts
<1>3. ~(i[t] > length)
  BY <1>2
<1>4. CASE w[t] = 0 \/ cells[i[t]] # cells[w[t]]
  <2>1. pc' = [pc EXCEPT ![t] = "keep"] /\ i' = i /\ j' = j
    BY <1>3, <1>4 DEF Compare, Goto
  <2>2. /\ OnlyLocals(t) /\ SharedTypes'
        /\ pc'[t] = "keep" /\ n'[t] = n[t] /\ i'[t] = i[t] /\ j'[t] = j[t] /\ w'[t] = w[t]
        /\ tmp'[t] = tmp[t] /\ got'[t] = got[t]
    BY <1>1, <1>2, <2>1 DEF Types, TypeOK, OnlyLocals, SharedTypes
  <2>3. LocalTypes(t)'
    BY <1>2, <2>2 DEF LocalTypes, Labels
  <2>4. Local(t)'
    BY <1>1, <1>2, <2>2 DEF Local
  <2>5. ~published => Alone(t)'
    BY <1>1, <1>2, <1>4, <2>2 DEF Alone
  <2>6. published => Shared(t)'
    BY <1>2, <2>2 DEF Shared
  <2>7. sorted' => Good'
    BY <1>1, <1>2 DEF Good, Content
  <2> QED
    BY <1>1, <1>2, <2>2, <2>3, <2>4, <2>5, <2>6, <2>7, Frame
<1>5. CASE ~(w[t] = 0 \/ cells[i[t]] # cells[w[t]])
  <2>1. /\ i' = [i EXCEPT ![t] = i[t] + 1] /\ j' = j
        /\ pc' = [pc EXCEPT ![t] = IF i[t] = n[t] THEN "cut" ELSE "compare"]
    BY <1>3, <1>5 DEF Compare, Goto
  <2>2. w' = [w EXCEPT ![t] = w[t]] /\ w[t] \in 0..i[t] /\ SharedTypes'
    BY <1>1, <1>2 DEF Types, SharedTypes
  <2>3. ~published
    <3> SUFFICES ASSUME published PROVE FALSE
      OBVIOUS
    <3>1. w[t] \in 1..length /\ i[t] \in 1..length /\ w[t] < i[t]
      BY <1>2, <1>5
    <3>2. cells[w[t]] < cells[i[t]] /\ cells[w[t]] \in Nat
      BY <1>2, <3>1 DEF Good, Strict
    <3> QED
      BY <1>5, <3>2
  <2>4. /\ Strict(cells, w[t])
        /\ \A a, b \in i[t]..length : a < b => cells[a] <= cells[b]
        /\ w[t] > 0 => \A b \in i[t]..length : cells[w[t]] <= cells[b]
        /\ Part(cells, 1, w[t]) \cup Part(cells, i[t], length) = added
    BY <1>1, <1>2, <2>3 DEF Alone
  <2>5. \A b : b \in i[t] + 1..length => b \in i[t]..length
    BY <1>2
  <2>6. Part(cells, 1, w[t]) \cup Part(cells, i[t] + 1, length) = added
    <3>1. \A k : k \in i[t]..length <=> k = i[t] \/ k \in i[t] + 1..length
      BY <1>2
    <3>2. cells[i[t]] \in Part(cells, 1, w[t])
      <4>1. w[t] \in 1..w[t] /\ cells[i[t]] = cells[w[t]]
        BY <1>2, <1>5
      <4> QED
        BY <4>1 DEF Part
    <3>3. Part(cells, i[t], length) = {cells[i[t]]} \cup Part(cells, i[t] + 1, length)
      BY <3>1 DEF Part
    <3> QED
      BY <2>4, <3>2, <3>3
  <2> HIDE DEF Strict
  <2> QED
    BY <1>1, <2>1, <2>2, <2>3, <2>4, <2>5, <2>6, SweepInv
<1> QED
  BY <1>4, <1>5

LEMMA KeepInv ==
  ASSUME Inv, NEW t \in Thread, Keep(t)
  PROVE  Inv'
<1>1. pc[t] = "keep" /\ UNCHANGED <<length, sorted, published, n, tmp, got, added>>
  BY DEF Keep
<1>2. /\ Types /\ Local(t) /\ LocalTypes(t) /\ SharedTypes
      /\ i[t] \in 1..length /\ n[t] = length /\ w[t] \in 0..i[t] - 1
      /\ length \in 0..Len(cells) /\ Len(cells) \in Nat /\ length <= MaxLen /\ MaxLen \in Nat
      /\ cells \in Seq(Nat) /\ \A k \in 1..length : k \in 1..Len(cells) /\ cells[k] \in Nat
      /\ published => Good /\ w[t] = i[t] - 1
      /\ ~published => t = Owner /\ Alone(t) /\ ~sorted
  BY <1>1, SweepFacts
<1>3. ~(i[t] > length)
  BY <1>2
<1> DEFINE v == w[t] + 1
<1>4. /\ cells' = [cells EXCEPT ![v] = cells[i[t]]] /\ w' = [w EXCEPT ![t] = v]
      /\ i' = [i EXCEPT ![t] = i[t] + 1] /\ j' = j
      /\ pc' = [pc EXCEPT ![t] = IF i[t] = n[t] THEN "cut" ELSE "compare"]
  BY <1>3 DEF Keep, Goto
<1>10. /\ w[t] \in Nat /\ i[t] \in Nat /\ length \in Nat /\ Len(cells) \in Nat
       /\ 1 <= i[t] /\ w[t] < i[t] /\ i[t] <= length /\ length <= Len(cells)
  BY <1>2
<1>5. v \in 0..i[t] /\ v \in 1..i[t] /\ v \in 1..Len(cells) /\ v = w[t] + 1 /\ cells[i[t]] \in Nat
  <2>1. v \in 0..i[t] /\ v \in 1..i[t] /\ v \in 1..Len(cells) /\ v = w[t] + 1
    BY <1>10
  <2> QED
    BY <1>2, <2>1
<1> HIDE DEF v
<1>6. /\ cells' \in Seq(Nat) /\ Len(cells') = Len(cells)
      /\ \A a \in 1..Len(cells) : cells'[a] = IF a = v THEN cells[i[t]] ELSE cells[a]
  <2>1. cells \in Seq(Nat) /\ v \in 1..Len(cells) /\ cells[i[t]] \in Nat
    BY <1>2, <1>5
  <2> QED
    BY <1>4, <2>1, Store
<1>7. SharedTypes'
  BY <1>1, <1>2, <1>6 DEF SharedTypes
<1>8. ASSUME published PROVE cells' = cells /\ v = i[t]
  <2>1. v = i[t]
    BY <1>2, <1>5, <1>8
  <2> QED
    BY <1>2, <1>4, <2>1
<1>9. ASSUME ~published
      PROVE  /\ Strict(cells', v)
             /\ \A a, b \in i[t] + 1..length : a < b => cells'[a] <= cells'[b]
             /\ v > 0 => \A b \in i[t] + 1..length : cells'[v] <= cells'[b]
             /\ Part(cells', 1, v) \cup Part(cells', i[t] + 1, length) = added
  <2>1. /\ Strict(cells, w[t])
        /\ \A a, b \in i[t]..length : a < b => cells[a] <= cells[b]
        /\ w[t] > 0 => \A b \in i[t]..length : cells[w[t]] <= cells[b]
        /\ Part(cells, 1, w[t]) \cup Part(cells, i[t], length) = added
        /\ w[t] = 0 \/ cells[i[t]] # cells[w[t]]
    BY <1>1, <1>2, <1>9 DEF Alone
  <2>2. \A b \in i[t] + 1..length : b \in i[t]..length /\ b \in 1..length /\ cells'[b] = cells[b]
    <3> TAKE b \in i[t] + 1..length
    <3>1. b \in i[t]..length /\ b \in 1..length /\ b \in 1..Len(cells) /\ b # v
      BY <1>5, <1>10
    <3> QED
      BY <1>6, <3>1
  <2>3. \A a \in 1..w[t] : a \in 1..length /\ cells'[a] = cells[a] /\ cells[a] \in Nat
    <3> TAKE a \in 1..w[t]
    <3>1. a \in 1..length /\ a \in 1..Len(cells) /\ a # v
      BY <1>5, <1>10
    <3> QED
      BY <1>2, <1>6, <3>1
  <2>4. cells'[v] = cells[i[t]] /\ i[t] \in i[t]..length
    BY <1>2, <1>5, <1>6, SMTT(30)
  <2>5. \A a \in 1..w[t] : cells[a] < cells[i[t]]
    <3> TAKE a \in 1..w[t]
    <3>3. w[t] \in 1..w[t] /\ w[t] > 0 /\ w[t] # 0 /\ (a = w[t] \/ a < w[t])
      BY <1>10
    <3>4. cells[w[t]] \in Nat /\ cells[w[t]] <= cells[i[t]] /\ cells[i[t]] # cells[w[t]]
      BY <2>1, <2>3, <2>4, <3>3
    <3>1. cells[w[t]] \in Nat /\ cells[w[t]] < cells[i[t]]
      BY <1>5, <3>4
    <3>2. a = w[t] \/ cells[a] < cells[w[t]]
      BY <2>1, <3>3 DEF Strict
    <3> QED
      BY <1>5, <2>3, <3>1, <3>2
  <2>6. Strict(cells', v)
    <3> SUFFICES ASSUME NEW a \in 1..v, NEW b \in 1..v, a < b PROVE cells'[a] < cells'[b]
      BY DEF Strict
    <3>1. a \in 1..w[t] /\ (b = v \/ b \in 1..w[t])
      BY <1>5, <1>10
    <3> QED
      BY <2>1, <2>3, <2>4, <2>5, <3>1 DEF Strict
  <2>7. \A a, b \in i[t] + 1..length : a < b => cells'[a] <= cells'[b]
    BY <2>1, <2>2
  <2>8. \A b \in i[t] + 1..length : cells'[v] <= cells'[b]
    <3> TAKE b \in i[t] + 1..length
    <3>1. i[t] < b
      BY <1>2
    <3> QED
      BY <2>1, <2>2, <2>4, <3>1
  <2>9. Part(cells', 1, v) \cup Part(cells', i[t] + 1, length) = added
    <3>1. \A k : k \in i[t]..length <=> k = i[t] \/ k \in i[t] + 1..length
      BY <1>2
    <3>2. \A k : k \in 1..v <=> k = v \/ k \in 1..w[t]
      <4>1. w[t] \in Nat /\ v = w[t] + 1
        BY <1>2, <1>5
      <4> QED
        BY <4>1
    <3>3. Part(cells', 1, v) = Part(cells, 1, w[t]) \cup {cells[i[t]]}
      BY <2>3, <2>4, <3>2 DEF Part
    <3>4. Part(cells, i[t], length) = {cells[i[t]]} \cup Part(cells, i[t] + 1, length)
      BY <3>1 DEF Part
    <3>5. Part(cells', i[t] + 1, length) = Part(cells, i[t] + 1, length)
      BY <2>2 DEF Part
    <3> QED
      BY <2>1, <3>3, <3>4, <3>5
  <2> QED
    BY <2>6, <2>7, <2>8, <2>9
<1> QED
  BY <1>1, <1>4, <1>5, <1>7, <1>8, <1>9, SweepInv

LEMMA CutInv ==
  ASSUME Inv, NEW t \in Thread, Cut(t)
  PROVE  Inv'
<1>1. /\ Types /\ Local(t) /\ pc[t] = "cut" /\ w[t] <= length
      /\ UNCHANGED <<cells, sorted, published, n, i, j, w, tmp, got, added>>
      /\ length' = w[t] /\ pc' = [pc EXCEPT ![t] = "flag"]
  BY DEF Inv, Local, Cut, Goto, locals
<1>2. /\ LocalTypes(t) /\ SharedTypes /\ length \in Nat /\ w[t] \in Nat /\ Len(cells) \in Nat
      /\ length <= Len(cells)
  BY <1>1, Kept DEF SharedTypes
<1>3. /\ OnlyLocals(t)
      /\ pc'[t] = "flag" /\ n'[t] = n[t] /\ i'[t] = i[t] /\ j'[t] = j[t] /\ w'[t] = w[t]
      /\ tmp'[t] = tmp[t] /\ got'[t] = got[t]
  BY <1>1 DEF Types, TypeOK, OnlyLocals
<1>4. SharedTypes'
  <2>1. length' \in 0..Len(cells)
    BY <1>1, <1>2
  <2> QED
    BY <1>1, <1>2, <2>1 DEF SharedTypes
<1>5. LocalTypes(t)'
  BY <1>2, <1>3 DEF LocalTypes, Labels
<1>6. Local(t)'
  BY <1>1, <1>3 DEF Local
<1>7. ASSUME ~published PROVE t = Owner /\ ~sorted /\ Alone(t)'
  <2>1. t = Owner /\ ~sorted /\ Strict(cells, w[t]) /\ Part(cells, 1, w[t]) = added
    BY <1>1, <1>7 DEF Inv, Alone
  <2> QED
    BY <1>1, <1>3, <2>1 DEF Alone, Good, Content, Strict
<1>8. ASSUME published PROVE Good /\ length' = length /\ Shared(t)'
  BY <1>1, <1>3, <1>8 DEF Inv, Shared
<1>9. sorted' => Good'
  BY <1>1, <1>7, <1>8 DEF Good, Content
<1> QED
  BY <1>1, <1>3, <1>4, <1>5, <1>6, <1>7, <1>8, <1>9, Frame

LEMMA FlagInv ==
  ASSUME Inv, NEW t \in Thread, Flag(t)
  PROVE  Inv'
<1>1. /\ Types /\ Local(t) /\ pc[t] = "flag" /\ w[t] = length
      /\ UNCHANGED <<cells, length, published, n, i, j, w, tmp, got, added>>
      /\ sorted' = TRUE /\ pc' = [pc EXCEPT ![t] = "copy"]
  BY DEF Inv, Local, Flag, Goto, locals
<1>2. LocalTypes(t) /\ SharedTypes /\ length \in Nat
  BY <1>1, Kept
<1>3. /\ OnlyLocals(t) /\ SharedTypes'
      /\ pc'[t] = "copy" /\ n'[t] = n[t] /\ i'[t] = i[t] /\ j'[t] = j[t] /\ w'[t] = w[t]
      /\ tmp'[t] = tmp[t] /\ got'[t] = got[t]
  BY <1>1, <1>2 DEF Types, TypeOK, OnlyLocals, SharedTypes
<1>4. LocalTypes(t)'
  BY <1>2, <1>3 DEF LocalTypes, Labels
<1>5. Local(t)'
  BY <1>1, <1>2, <1>3 DEF Local
<1>6. Good /\ (~published => t = Owner)
  BY <1>1 DEF Inv, Alone
<1>7. Good'
  BY <1>1, <1>6 DEF Good, Content
<1>8. Alone(t)' /\ Shared(t)'
  BY <1>3 DEF Alone, Shared
<1> QED
  BY <1>1, <1>3, <1>4, <1>5, <1>6, <1>7, <1>8, Frame

LEMMA CopyLengthInv ==
  ASSUME Inv, NEW t \in Thread, CopyLength(t)
  PROVE  Inv'
<1> DEFINE l == IF length = 0 THEN "done" ELSE "take"
<1>1. /\ Types /\ Local(t) /\ pc[t] = "copy" /\ sorted /\ w[t] <= length
      /\ UNCHANGED <<cells, length, sorted, published, i, j, w, tmp, added>>
      /\ n' = [n EXCEPT ![t] = length] /\ got' = [got EXCEPT ![t] = <<>>]
      /\ pc' = [pc EXCEPT ![t] = l]
  BY DEF Inv, Local, CopyLength, Goto, shared
<1>2. (l = "done" /\ length = 0) \/ (l = "take" /\ length # 0)
  OBVIOUS
<1> HIDE DEF l
<1>3. LocalTypes(t) /\ SharedTypes /\ length \in Nat /\ length <= MaxLen /\ MaxLen \in Nat /\ w[t] \in Nat
  BY <1>1, Kept
<1>4. /\ OnlyLocals(t) /\ SharedTypes'
      /\ pc'[t] = l /\ n'[t] = length /\ i'[t] = i[t] /\ j'[t] = j[t] /\ w'[t] = w[t]
      /\ tmp'[t] = tmp[t] /\ got'[t] = <<>>
  BY <1>1, <1>3 DEF Types, TypeOK, OnlyLocals, SharedTypes
<1>5. LocalTypes(t)'
  <2>1. /\ l \in Labels /\ length \in 0..MaxLen /\ w[t] \in 0..length /\ <<>> \in Seq(Nat)
    BY <1>1, <1>2, <1>3 DEF Labels
  <2> QED
    BY <1>3, <1>4, <2>1 DEF LocalTypes
<1>6. Local(t)'
  <2>1. Len(got'[t]) = 0 /\ \A k \in 1..Len(got'[t]) : got'[t][k] = cells'[k]
    BY <1>4
  <2> QED
    BY <1>1, <1>2, <1>3, <1>4, <2>1 DEF Local
<1>7. ~published => t = Owner
  BY <1>1 DEF Inv
<1>8. Alone(t)' /\ Shared(t)'
  BY <1>2, <1>4 DEF Alone, Shared
<1>9. sorted' => Good'
  BY <1>1 DEF Inv, Good, Content
<1> QED
  BY <1>1, <1>4, <1>5, <1>6, <1>7, <1>8, <1>9, Frame

LEMMA CopyCellInv ==
  ASSUME Inv, NEW t \in Thread, CopyCell(t)
  PROVE  Inv'
<1> DEFINE l == IF Len(got[t]) + 1 = n[t] THEN "done" ELSE "take"
           k == Len(got[t]) + 1
<1>1. /\ Types /\ Local(t) /\ pc[t] = "take" /\ sorted /\ n[t] = length /\ Len(got[t]) < length
      /\ \A a \in 1..Len(got[t]) : got[t][a] = cells[a]
      /\ UNCHANGED <<cells, length, sorted, published, n, i, j, w, tmp, added>>
      /\ got' = [got EXCEPT ![t] = Append(got[t], cells[k])]
      /\ pc' = [pc EXCEPT ![t] = l]
  BY DEF Inv, Local, CopyCell, Goto, shared
<1>2. /\ LocalTypes(t) /\ SharedTypes /\ length \in Nat /\ got[t] \in Seq(Nat)
      /\ Len(cells) \in Nat /\ length <= Len(cells)
      /\ \A a \in 1..Len(cells) : cells[a] \in Nat
  BY <1>1, Kept DEF LocalTypes, SharedTypes
<1>3. Len(got[t]) \in Nat /\ k \in 1..Len(cells) /\ k \in Nat
  <2>1. Len(got[t]) \in Nat
    BY <1>2, LenProperties
  <2> QED
    BY <1>1, <1>2, <2>1
<1>4. (l = "done" /\ k = length) \/ (l = "take" /\ k < length)
  BY <1>1, <1>2, <1>3
<1> DEFINE g == Append(got[t], cells[k])
<1>5. /\ g \in Seq(Nat) /\ Len(g) = k
      /\ \A a \in 1..Len(got[t]) : g[a] = got[t][a]
      /\ g[Len(got[t]) + 1] = cells[k]
  BY <1>2, <1>3, AppendProperties
<1>6. k = Len(got[t]) + 1
  OBVIOUS
<1> HIDE DEF g, k, l
<1>7. \A a \in 1..Len(g) : g[a] = cells[a]
  <2> TAKE a \in 1..Len(g)
  <2>1. a \in 1..Len(got[t]) \/ a = k
    BY <1>3, <1>5, <1>6
  <2> QED
    BY <1>1, <1>5, <1>6, <2>1
<1>8. /\ OnlyLocals(t) /\ SharedTypes'
      /\ pc'[t] = l /\ n'[t] = n[t] /\ i'[t] = i[t] /\ j'[t] = j[t] /\ w'[t] = w[t]
      /\ tmp'[t] = tmp[t] /\ got'[t] = g
  BY <1>1, <1>2 DEF Types, TypeOK, OnlyLocals, SharedTypes, g
<1>9. LocalTypes(t)'
  BY <1>2, <1>4, <1>5, <1>8 DEF LocalTypes, Labels
<1>10. Local(t)'
  BY <1>1, <1>4, <1>5, <1>7, <1>8 DEF Local
<1>11. ~published => t = Owner
  BY <1>1 DEF Inv
<1>12. Alone(t)' /\ Shared(t)'
  BY <1>4, <1>8 DEF Alone, Shared
<1>13. sorted' => Good'
  BY <1>1 DEF Inv, Good, Content
<1> QED
  BY <1>1, <1>8, <1>9, <1>10, <1>11, <1>12, <1>13, Frame

LEMMA DoneInv ==
  ASSUME Inv, NEW t \in Thread, Done(t)
  PROVE  Inv'
<1>1. /\ Types /\ Local(t) /\ pc[t] = "done" /\ sorted /\ Good
      /\ UNCHANGED <<cells, length, sorted, published, added>>
      /\ got' = [got EXCEPT ![t] = <<>>] /\ n' = [n EXCEPT ![t] = 0]
      /\ i' = [i EXCEPT ![t] = 1] /\ j' = [j EXCEPT ![t] = 1]
      /\ w' = [w EXCEPT ![t] = 0] /\ tmp' = [tmp EXCEPT ![t] = <<0, 0>>]
      /\ pc' = [pc EXCEPT ![t] = "idle"]
  BY DEF Inv, Local, Done, Goto, shared
<1>2. LocalTypes(t) /\ SharedTypes /\ MaxLen \in Nat
  BY <1>1, Kept
<1>3. /\ OnlyLocals(t) /\ SharedTypes'
      /\ pc'[t] = "idle" /\ n'[t] = 0 /\ i'[t] = 1 /\ j'[t] = 1 /\ w'[t] = 0
      /\ tmp'[t] = <<0, 0>> /\ got'[t] = <<>>
  BY <1>1, <1>2 DEF Types, TypeOK, OnlyLocals, SharedTypes
<1>4. LocalTypes(t)'
  <2>1. /\ "idle" \in Labels /\ 0 \in 0..MaxLen /\ 0 \in 0..0 /\ 1 \in 1..MaxLen + 2
        /\ <<0, 0>> \in Nat \X Nat /\ <<>> \in Seq(Nat)
    BY <1>2 DEF Labels
  <2> QED
    BY <1>3, <2>1 DEF LocalTypes
<1>5. Local(t)' /\ Shared(t)'
  BY <1>3 DEF Local, Shared
<1>6. ~published => t = Owner
  BY <1>1 DEF Inv
<1>7. Alone(t)' /\ Good'
  BY <1>1, <1>3 DEF Alone, Good, Content
<1> QED
  BY <1>1, <1>3, <1>4, <1>5, <1>6, <1>7, Frame

LEMMA AskInv ==
  ASSUME Inv, NEW t \in Thread, Ask(t)
  PROVE  Inv'
<1>1. /\ Types /\ Local(t) /\ pc[t] = "idle" /\ n[t] = 0 /\ w[t] = 0 /\ (published \/ t = Owner)
      /\ UNCHANGED <<cells, length, sorted, published, n, i, j, w, tmp, got, added>>
      /\ pc' = [pc EXCEPT ![t] = "check"]
  BY DEF Inv, Local, Ask, Goto, shared, locals
<1>2. LocalTypes(t) /\ SharedTypes
  BY <1>1, Kept
<1>3. /\ OnlyLocals(t) /\ SharedTypes'
      /\ pc'[t] = "check" /\ n'[t] = n[t] /\ i'[t] = i[t] /\ j'[t] = j[t] /\ w'[t] = w[t]
      /\ tmp'[t] = tmp[t] /\ got'[t] = got[t]
  BY <1>1, <1>2 DEF Types, TypeOK, OnlyLocals, SharedTypes
<1>4. LocalTypes(t)'
  BY <1>2, <1>3 DEF LocalTypes, Labels
<1>5. Local(t)' /\ Shared(t)'
  BY <1>1, <1>3 DEF Local, Shared
<1>6. ~published => Alone(t)'
  BY <1>1, <1>3 DEF Inv, Alone, Content
<1>7. sorted' => Good'
  BY <1>1 DEF Inv, Good, Content
<1> QED
  BY <1>1, <1>3, <1>4, <1>5, <1>6, <1>7, Frame

\* Nobody but the owner has the set, and the owner is not in a query.
LEMMA AddInv ==
  ASSUME Inv, NEW s \in Batch, Add(s)
  PROVE  Inv'
<1>1. /\ Types /\ SharedTypes /\ ~published /\ Owner \in Thread
      /\ \A t \in Thread : pc[t] = "idle" /\ Local(t)
      /\ Content
      /\ UNCHANGED <<published, pc, n, i, j, w, tmp, got>>
      /\ cells' = Current \o s /\ length' = length + Len(s) /\ sorted' = FALSE
      /\ added' = added \cup Elems(s) /\ length + Len(s) <= MaxLen
  BY LazyAssumption DEF Inv, Alone, Add, locals, Types, TypeOK, SharedTypes
<1>2. s \in Seq(Nat) /\ MaxLen \in Nat /\ Len(s) \in Nat /\ DOMAIN s = 1..Len(s)
      /\ \A k \in 1..Len(s) : s[k] \in Nat
  BY LazyAssumption, LenProperties, ElementOfSeq
<1>3. /\ Current \in Seq(Nat) /\ Len(Current) = length /\ length \in Nat
      /\ \A k \in 1..length : Current[k] = cells[k]
  BY <1>1, SliceFacts, LenProperties DEF Current, SharedTypes
<1>4. /\ cells' \in Seq(Nat) /\ Len(cells') = length + Len(s)
      /\ \A k \in 1..length + Len(s) :
           cells'[k] = IF k <= length THEN Current[k] ELSE s[k - length]
  BY <1>1, <1>2, <1>3, ConcatProperties
<1>5. Content'
  <2>1. ASSUME NEW x \in Part(cells', 1, length') PROVE x \in added'
    <3>1. PICK k \in 1..length + Len(s) : x = cells'[k]
      BY <1>1, <2>1 DEF Part
    <3>2. CASE k <= length
      <4>1. k \in 1..length /\ x = cells[k]
        BY <1>2, <1>3, <1>4, <3>1, <3>2
      <4> QED
        BY <1>1, <4>1 DEF Content, Part
    <3>3. CASE ~(k <= length)
      <4>1. k - length \in DOMAIN s /\ x = s[k - length]
        BY <1>2, <1>3, <1>4, <3>1, <3>3
      <4> QED
        BY <1>1, <4>1 DEF Elems
    <3> QED
      BY <3>2, <3>3
  <2>2. ASSUME NEW x \in added' PROVE x \in Part(cells', 1, length')
    <3>1. CASE x \in added
      <4>1. PICK k \in 1..length : x = cells[k]
        BY <1>1, <3>1 DEF Content, Part
      <4>2. k \in 1..length + Len(s) /\ cells'[k] = x
        BY <1>2, <1>3, <1>4, <4>1
      <4> QED
        BY <1>1, <4>2 DEF Part
    <3>2. CASE x \in Elems(s)
      <4>1. PICK k \in 1..Len(s) : x = s[k]
        BY <1>2, <3>2 DEF Elems
      <4>2. /\ length + k \in 1..length + Len(s) /\ ~(length + k <= length)
            /\ (length + k) - length = k
        BY <1>2, <1>3, <4>1
      <4>3. cells'[length + k] = x
        BY <1>4, <4>1, <4>2
      <4> QED
        BY <1>1, <4>2, <4>3 DEF Part
    <3> QED
      BY <1>1, <2>2, <3>1, <3>2
  <2> QED
    BY <2>1, <2>2 DEF Content
<1>6. Types'
  <2>1. length' \in 0..Len(cells') /\ Len(cells') <= MaxLen
    BY <1>1, <1>2, <1>3, <1>4
  <2> QED
    BY <1>1, <1>4, <2>1 DEF Types, TypeOK
<1>7. \A t \in Thread : Local(t)'
  BY <1>1 DEF Local
<1>8. Alone(Owner)'
  BY <1>1, <1>5 DEF Alone
<1> QED
  BY <1>1, <1>6, <1>7, <1>8 DEF Inv

LEMMA PublishInv ==
  ASSUME Careful, Inv, Publish
  PROVE  Inv'
<1>1. /\ Types /\ SharedTypes /\ Owner \in Thread /\ Content
      /\ \A t \in Thread : pc[t] = "idle" /\ Local(t)
      /\ UNCHANGED <<cells, length, sorted, pc, n, i, j, w, tmp, got, added>> /\ published' = TRUE
      /\ sorted \/ Increasing(Current)
  BY LazyAssumption DEF Inv, Alone, Publish, shared, locals, Types, TypeOK, SharedTypes
<1>2. Good
  <2>1. CASE sorted
    BY <2>1 DEF Inv
  <2>2. CASE Increasing(Current)
    BY <1>1, <2>2, SliceFacts DEF Good, Current, SharedTypes
  <2> QED
    BY <1>1, <2>1, <2>2
<1>3. Types' /\ Good'
  BY <1>1, <1>2 DEF Types, TypeOK, Good, Content
<1>4. \A t \in Thread : Local(t)' /\ Shared(t)'
  BY <1>1 DEF Local, Shared
<1> QED
  BY <1>1, <1>3, <1>4 DEF Inv

LEMMA StepInv ==
  ASSUME Careful
  PROVE  Inv /\ [Next]_vars => Inv'
<1> SUFFICES ASSUME Inv, [Next]_vars PROVE Inv'
  OBVIOUS
<1>1. ASSUME NEW s \in Batch, Add(s) PROVE Inv'
  BY <1>1, AddInv
<1>2. CASE Publish
  BY <1>2, PublishInv
<1>3. ASSUME NEW t \in Thread, Ask(t) PROVE Inv'
  BY <1>3, AskInv
<1>4. ASSUME NEW t \in Thread, Work(t) PROVE Inv'
  BY <1>4, CheckInv, LessInv, SwapLoadInv, SwapStoreInv, SwapStoredInv, TakeRangeInv,
     CompareInv, KeepInv, CutInv, FlagInv, CopyLengthInv, CopyCellInv DEF Work
<1>5. ASSUME NEW t \in Thread, Done(t) PROVE Inv'
  BY <1>5, DoneInv
<1>6. CASE UNCHANGED vars
  <2>1. UNCHANGED <<cells, length, sorted, published, pc, n, i, j, w, tmp, got, added>>
    BY <1>6 DEF vars, shared, locals
  <2>2. Types' /\ (sorted => Good)' /\ (Good => Good')
    BY <2>1 DEF Inv, Types, TypeOK, Good, Content
  <2>3. \A t \in Thread : Local(t)'
    BY <2>1 DEF Inv, Local
  <2>4. published => \A t \in Thread : Shared(t)'
    BY <2>1 DEF Inv, Shared
  <2>5. ~published => Alone(Owner)'
    BY <2>1 DEF Inv, Alone, Good, Content
  <2> QED
    BY <2>1, <2>2, <2>3, <2>4, <2>5 DEF Inv
<1> QED
  BY <1>1, <1>2, <1>3, <1>4, <1>5, <1>6 DEF Next, Step

-----------------------------------------------------------------------------
(* The theorems *)

\* Every variable keeps its type: in particular a goroutine's copy of the
\* length and its loop indices stay in the array, whatever the others do.
THEOREM TypeCorrect == ASSUME Careful PROVE Spec => []TypeOK
<1>1. Inv => TypeOK
  BY DEF Inv, Types
<1> QED
  BY <1>1, InitInv, StepInv, PTL DEF Spec

\* Where a query ends, the invariant says what it copied.
LEMMA InvIsExact == Inv => ExactAnswers
<1> SUFFICES ASSUME Inv, NEW t \in Thread
             PROVE  /\ pc[t] # "panicked"
                    /\ pc[t] = "done" => Increasing(got[t]) /\ Elems(got[t]) = added
  BY DEF ExactAnswers
<1>1. Types /\ Local(t) /\ pc[t] # "panicked"
  BY DEF Inv, Local
<1>2. ASSUME pc[t] = "done" PROVE Increasing(got[t]) /\ Elems(got[t]) = added
  <2>1. /\ Good /\ Len(got[t]) = length /\ got[t] \in Seq(Nat)
        /\ \A k \in 1..Len(got[t]) : got[t][k] = cells[k]
    BY <1>1, <1>2 DEF Inv, Local, Types
  <2>2. DOMAIN got[t] = 1..length
    BY <2>1, LenProperties
  <2> QED
    BY <2>1, <2>2 DEF Good, Content, Strict, Part, Increasing, Elems
<1> QED
  BY <1>1, <1>2

\* What a query returns is what was added, sorted, each id once, however many
\* goroutines query at the same time; and no index leaves the slice.
THEOREM QueriesAreExact == ASSUME Careful PROVE Spec => []ExactAnswers
<1>1. Inv => ExactAnswers
  BY InvIsExact
<1> QED
  BY <1>1, InitInv, StepInv, PTL DEF Spec

\* finalize's early return is right: where the flag is set, the slice is sorted,
\* has no duplicate, and holds every id that was added.
THEOREM FlagIsNeverEarly == ASSUME Careful PROVE Spec => []FlagTellsTruth
<1>1. Inv => FlagTellsTruth
  <2> SUFFICES ASSUME Inv, sorted PROVE Increasing(Current) /\ Elems(Current) = added
    BY DEF FlagTellsTruth
  <2>1. Good /\ cells \in Seq(Nat) /\ length \in 0..Len(cells)
    BY DEF Inv, Types, TypeOK
  <2> QED
    BY <2>1, SliceFacts DEF Good, Content, Current
<1> QED
  BY <1>1, InitInv, StepInv, PTL DEF Spec

-----------------------------------------------------------------------------
(* The C ABI *)

\* Handles, lookups and frees aside, a call is a step of LazySet or touches
\* nothing of the set.
LEMMA CallIsSetStep == [CNext]_cvars => [Next]_vars
<1> SUFFICES ASSUME [CNext]_cvars PROVE [Next]_vars
  OBVIOUS
<1>1. CASE SetNew
  BY <1>1 DEF SetNew
<1>2. CASE HandOut
  BY <1>2 DEF HandOut, Next
<1>3. ASSUME NEW s \in Batch, SetAddMany(s) PROVE [Next]_vars
  BY <1>3 DEF SetAddMany, Next
<1>4. ASSUME NEW t \in Thread, NEW h \in DOMAIN reg, SetFree(t, h) PROVE [Next]_vars
  BY <1>4 DEF SetFree
<1>5. ASSUME NEW t \in Thread, NEW hs \in Query, Call(t, hs) PROVE [Next]_vars
  BY <1>5 DEF Call
<1>6. ASSUME NEW t \in Thread, Lookup(t) PROVE [Next]_vars
  <2>1. UNCHANGED vars \/ Ask(t)
    BY <1>6 DEF Lookup
  <2> QED
    BY <2>1 DEF Next
<1>7. ASSUME NEW t \in Thread, Inside(t) PROVE [Next]_vars
  BY <1>7 DEF Inside, Next, Step
<1>8. ASSUME NEW t \in Thread, Leave(t) PROVE [Next]_vars
  BY <1>8 DEF Leave, Next, Step
<1>9. CASE UNCHANGED cvars
  BY <1>9 DEF cvars
<1> QED
  BY <1>1, <1>2, <1>3, <1>4, <1>5, <1>6, <1>7, <1>8, <1>9 DEF CNext, Proceed

\* Every run of the C ABI is, as far as the set is concerned, a run of LazySet:
\* a free that overtakes a call takes nothing from it.
THEOREM CallersShareASet == CSpec => Spec
<1>1. CInit => Init
  BY DEF CInit
<1> QED
  BY <1>1, CallIsSetStep, PTL DEF CSpec, Spec

\* A caller's copy of a set is exact whoever frees the handle meanwhile, and no
\* call indexes beyond the slice.
THEOREM CallersGetExactAnswers == ASSUME Careful PROVE CSpec => []ExactAnswers
BY CallersShareASet, QueriesAreExact, PTL

-----------------------------------------------------------------------------
(* Handles *)

\* A handle is in the map until it is freed, and stands for the set it was made for.
Registry ==
  /\ next \in 1..3 /\ freed \subseteq 1..next - 1
  /\ DOMAIN reg = (1..next - 1) \ freed
  /\ \A h \in DOMAIN reg : reg[h] = Made[h]

CallTypes ==
  /\ stage \in [Thread -> {"out", "called", "inside"}]
  /\ asked \in [Thread -> Query \cup {<<>>}]
  /\ DOMAIN out = Thread /\ out = [t \in Thread |-> out[t]]
  /\ stale \in [Thread -> BOOLEAN]

\* A call names handles that were made; none of those it still looks for was
\* freed before it began, unless it says so, and it has no answer yet.  Before
\* the owner hands them out nobody else has a handle.
Caller(t) ==
  /\ stage[t] # "out" =>
       /\ out[t] = None /\ asked[t] # <<>>
       /\ \A h \in Elems(asked[t]) : h < next
       /\ published \/ t = Owner
  /\ stage[t] # "inside" => pc[t] = "idle"
  /\ stage[t] = "called" /\ stale[t] => Elems(asked[t]) \cap freed # {}
  /\ stage[t] = "inside" => ~stale[t] /\ pc[t] # "idle"
  /\ out[t] # None => published \/ t = Owner

Handled ==
  /\ Registry /\ CallTypes
  /\ \A t \in Thread : Caller(t)
  /\ HandlesKeepTheirSets

LEMMA InitHandled == CInit => Handled
<1> SUFFICES ASSUME CInit PROVE Handled
  OBVIOUS
<1>1. /\ next = 1 /\ freed = {} /\ reg = <<>> /\ Init
      /\ stage = [t \in Thread |-> "out"] /\ asked = [t \in Thread |-> <<>>]
      /\ out = [t \in Thread |-> None] /\ stale = [t \in Thread |-> FALSE]
  BY DEF CInit
<1>2. Registry
  BY <1>1, EmptySeq DEF Registry
<1>3. CallTypes /\ \A t \in Thread : Caller(t)
  BY <1>1 DEF CallTypes, Caller, Init
<1>4. HandlesKeepTheirSets
  BY <1>1 DEF HandlesKeepTheirSets
<1> QED
  BY <1>2, <1>3, <1>4 DEF Handled

\* The handles a query may name.
LEMMA QueryFacts ==
  ASSUME NEW hs \in Query
  PROVE  /\ hs # <<>> /\ Elems(hs) # {} /\ Elems(hs) \subseteq {1, 2}
         /\ hs \in Seq(1..2) /\ Len(hs) \in 1..2 /\ DOMAIN hs = 1..Len(hs)
         /\ Elems(hs) = {hs[k] : k \in 1..Len(hs)}
<1>1. hs \in {<<1>>, <<2>>, <<1, 2>>, <<2, 1>>}
  BY HandleAssumption
<1>2. hs \in Seq(1..2) /\ Len(hs) \in 1..2 /\ DOMAIN hs = 1..Len(hs) /\ hs # <<>>
  <2>1. CASE hs = <<1>>
    BY <2>1
  <2>2. CASE hs = <<2>>
    BY <2>2
  <2>3. CASE hs = <<1, 2>>
    BY <2>3
  <2>4. CASE hs = <<2, 1>>
    BY <2>4
  <2> QED
    BY <1>1, <2>1, <2>2, <2>3, <2>4
<1>3. Elems(hs) = {hs[k] : k \in 1..Len(hs)} /\ \A k \in 1..Len(hs) : hs[k] \in {1, 2}
  BY <1>2, ElementOfSeq DEF Elems
<1> QED
  BY <1>2, <1>3

\* What a step that leaves the shared set's ids alone, and takes nobody else's
\* answer, has to show.
LEMMA HandledFrame ==
  ASSUME Handled, NEW t \in Thread, UNCHANGED <<added, published, next>>,
         Registry', CallTypes', Caller(t)', freed \subseteq freed',
         \A u \in Thread \ {t} :
           /\ stage'[u] = stage[u] /\ asked'[u] = asked[u] /\ out'[u] = out[u]
           /\ stale'[u] = stale[u] /\ pc'[u] = pc[u],
         stage'[t] = "out" /\ out'[t] # None =>
           /\ stale'[t] => out'[t] = Missing
           /\ \/ out'[t] = Common(asked'[t])
              \/ out'[t] = Missing /\ Elems(asked'[t]) \cap freed' # {}
  PROVE  Handled'
<1>1. \A hs : Common(hs)' = Common(hs)
  BY DEF Common
<1>2. ASSUME NEW u \in Thread \ {t} PROVE Caller(u)'
  BY <1>2 DEF Handled, Caller
<1>3. ASSUME NEW u \in Thread, stage'[u] = "out", out'[u] # None
      PROVE  /\ stale'[u] => out'[u] = Missing
             /\ \/ out'[u] = Common(asked'[u])
                \/ out'[u] = Missing /\ Elems(asked'[u]) \cap freed' # {}
  <2>1. CASE u = t
    BY <1>3, <2>1
  <2>2. CASE u # t
    <3>1. /\ stale[u] => out[u] = Missing
          /\ out[u] = Common(asked[u]) \/ (out[u] = Missing /\ Elems(asked[u]) \cap freed # {})
      BY <1>3, <2>2 DEF Handled, HandlesKeepTheirSets
    <3> QED
      BY <2>2, <3>1
  <2> QED
    BY <2>1, <2>2
<1>4. HandlesKeepTheirSets'
  BY <1>1, <1>3 DEF HandlesKeepTheirSets, Common
<1> QED
  BY <1>2, <1>4 DEF Handled

LEMMA SetNewHandled ==
  ASSUME Handled, SetNew
  PROVE  Handled'
<1>1. /\ next <= 2 /\ next' = next + 1 /\ reg' = [h \in DOMAIN reg \cup {next} |-> IF h = next THEN Made[h] ELSE reg[h]]
      /\ UNCHANGED <<vars, stage, asked, out, freed, stale>>
  BY DEF SetNew, Made
<1>2. /\ next \in 1..3 /\ freed \subseteq 1..next - 1
      /\ DOMAIN reg = (1..next - 1) \ freed /\ \A h \in DOMAIN reg : reg[h] = Made[h]
  BY DEF Handled, Registry
<1>3. /\ DOMAIN reg' = DOMAIN reg \cup {next}
      /\ \A h \in DOMAIN reg' : reg'[h] = IF h = next THEN Made[h] ELSE reg[h]
  BY <1>1
<1>4. Registry'
  <2>1. next' \in 1..3 /\ freed' \subseteq 1..next' - 1 /\ next \notin 1..next - 1
        /\ 1..next' - 1 = (1..next - 1) \cup {next}
    BY <1>1, <1>2
  <2>2. DOMAIN reg' = (1..next' - 1) \ freed'
    BY <1>1, <1>2, <1>3, <2>1
  <2>3. \A h \in DOMAIN reg' : reg'[h] = Made[h]
    BY <1>2, <1>3
  <2> QED
    BY <2>1, <2>2, <2>3 DEF Registry, Made
<1>5. CallTypes'
  BY <1>1 DEF Handled, CallTypes
<1>6. ASSUME NEW t \in Thread PROVE Caller(t)'
  <2>1. \A h \in Elems(asked[t]) : h < next => h < next'
    <3>1. asked[t] = <<>> \/ asked[t] \in Query
      BY DEF Handled, CallTypes
    <3>2. Elems(asked[t]) \subseteq {1, 2}
      BY <3>1, QueryFacts, EmptySeq DEF Elems
    <3> QED
      BY <1>1, <1>2, <3>2
  <2> QED
    BY <1>1, <2>1 DEF Handled, Caller, vars, shared, locals
<1>7. HandlesKeepTheirSets'
  BY <1>1 DEF Handled, HandlesKeepTheirSets, Common, vars
<1> QED
  BY <1>4, <1>5, <1>6, <1>7 DEF Handled

LEMMA SetAddManyHandled ==
  ASSUME Handled, NEW s \in Batch, SetAddMany(s)
  PROVE  Handled'
<1>1. /\ ~published /\ UNCHANGED <<published, pc, reg, next, stage, asked, freed, stale>>
      /\ out' = [out EXCEPT ![Owner] = None]
  BY DEF SetAddMany, Add
<1>2. Owner \in Thread
  BY LazyAssumption
<1>3. Registry' /\ CallTypes'
  BY <1>1 DEF Handled, Registry, CallTypes, Made
<1>4. \A t \in Thread : out'[t] = None
  BY <1>1, <1>2 DEF Handled, Caller, CallTypes
<1>5. \A t \in Thread : Caller(t)'
  BY <1>1, <1>4 DEF Handled, Caller
<1>6. HandlesKeepTheirSets'
  BY <1>4 DEF HandlesKeepTheirSets
<1> QED
  BY <1>3, <1>5, <1>6 DEF Handled

LEMMA HandOutHandled ==
  ASSUME Handled, HandOut
  PROVE  Handled'
<1>1. /\ published' = TRUE /\ UNCHANGED <<pc, added, reg, next, stage, asked, out, freed, stale>>
  BY DEF HandOut, Publish, handles
<1> QED
  BY <1>1 DEF Handled, Registry, CallTypes, Caller, HandlesKeepTheirSets, Common, Made

\* A free takes the handle from the map, and from nobody who is inside the set.
LEMMA SetFreeHandled ==
  ASSUME Handled, NEW t \in Thread, NEW h \in DOMAIN reg, SetFree(t, h)
  PROVE  Handled'
<1>1. /\ stage[t] = "out" /\ reg' = [k \in DOMAIN reg \ {h} |-> reg[k]]
      /\ freed' = freed \cup {h}
      /\ UNCHANGED <<pc, published, added, next, stage, asked, out, stale>>
  BY DEF SetFree, Free, vars
<1>2. Registry'
  BY <1>1 DEF Handled, Registry, Made
<1>3. CallTypes' /\ Caller(t)'
  BY <1>1 DEF Handled, CallTypes, Caller
<1>4. ASSUME out[t] # None
      PROVE  /\ stale[t] => out[t] = Missing
             /\ out[t] = Common(asked[t]) \/ (out[t] = Missing /\ Elems(asked[t]) \cap freed' # {})
  BY <1>1, <1>4 DEF Handled, HandlesKeepTheirSets
<1> QED
  BY <1>1, <1>2, <1>3, <1>4, HandledFrame

LEMMA CallHandled ==
  ASSUME Handled, NEW t \in Thread, NEW hs \in Query, Call(t, hs)
  PROVE  Handled'
<1>1. /\ stage[t] = "out" /\ (published \/ t = Owner) /\ \A h \in Elems(hs) : h < next
      /\ stage' = [stage EXCEPT ![t] = "called"] /\ asked' = [asked EXCEPT ![t] = hs]
      /\ out' = [out EXCEPT ![t] = None]
      /\ stale' = [stale EXCEPT ![t] = Elems(hs) \cap freed # {}]
      /\ UNCHANGED <<pc, published, added, reg, next, freed>>
  BY DEF Call, Free, vars
<1>2. /\ stage'[t] = "called" /\ asked'[t] = hs /\ out'[t] = None
      /\ stale'[t] = (Elems(hs) \cap freed # {})
      /\ \A u \in Thread \ {t} : /\ stage'[u] = stage[u] /\ asked'[u] = asked[u]
                                 /\ out'[u] = out[u] /\ stale'[u] = stale[u]
  BY <1>1 DEF Handled, CallTypes
<1>3. Registry' /\ CallTypes'
  BY <1>1 DEF Handled, Registry, CallTypes, Made
<1>4. Caller(t)'
  <2>1. pc'[t] = "idle" /\ hs # <<>>
    <3>1. Caller(t) /\ stage[t] = "out" /\ pc' = pc
      BY <1>1 DEF Handled
    <3>2. pc[t] = "idle"
      BY <3>1 DEF Caller
    <3> QED
      BY <3>1, <3>2, QueryFacts
  <2>2. ASSUME stale'[t] PROVE Elems(hs) \cap freed # {}
    BY <1>2, <2>2, Zenon
  <2> QED
    BY <1>1, <1>2, <2>1, <2>2 DEF Caller
<1> QED
  BY <1>1, <1>2, <1>3, <1>4, HandledFrame

\* A call finds no set, only the second one, or goes into the shared set; one
\* whose handles were freed before it began cannot find them all.
LEMMA LookupHandled ==
  ASSUME Inv, Handled, NEW t \in Thread, Lookup(t)
  PROVE  Handled'
<1> DEFINE found == Elems(asked[t]) \cap DOMAIN reg
<1>1. /\ stage[t] = "called" /\ UNCHANGED <<published, added, reg, next, asked, freed, stale>>
      /\ pc[t] = "idle" /\ out[t] = None /\ (published \/ t = Owner)
      /\ stale[t] => Elems(asked[t]) \cap freed # {}
  BY DEF Lookup, Ask, Handled, Caller, vars
<1>2. /\ asked[t] \in Query /\ Elems(asked[t]) # {}
      /\ \A h \in Elems(asked[t]) : h < next /\ h \in 1..2
  <2>1. asked[t] \in Query /\ \A h \in Elems(asked[t]) : h < next
    BY <1>1 DEF Handled, CallTypes, Caller
  <2> QED
    BY <2>1, QueryFacts
<1>3. DOMAIN reg = (1..next - 1) \ freed /\ (\A h \in DOMAIN reg : reg[h] = Made[h]) /\ next \in 1..3
  BY DEF Handled, Registry
<1>4. found = Elems(asked[t]) <=> Elems(asked[t]) \cap freed = {}
  <2>1. \A h \in Elems(asked[t]) : h \in 1..next - 1
    BY <1>2, <1>3
  <2> QED
    BY <1>3, <2>1
<1>5. Registry'
  BY <1>1 DEF Handled, Registry, Made
<1> DEFINE Frame1 == \A u \in Thread \ {t} :
              /\ stage'[u] = stage[u] /\ asked'[u] = asked[u] /\ out'[u] = out[u]
              /\ stale'[u] = stale[u] /\ pc'[u] = pc[u]
<1>6. ASSUME found # Elems(asked[t]), stage' = [stage EXCEPT ![t] = "out"],
             out' = [out EXCEPT ![t] = Missing], UNCHANGED vars
      PROVE  Handled'
  <2>1. stage'[t] = "out" /\ out'[t] = Missing /\ pc' = pc /\ Frame1
    BY <1>1, <1>6 DEF Handled, CallTypes, vars
  <2>2. CallTypes' /\ Caller(t)'
    BY <1>1, <1>6, <2>1 DEF Handled, CallTypes, Caller
  <2>3. Elems(asked'[t]) \cap freed' # {}
    BY <1>1, <1>4, <1>6
  <2> QED
    BY <1>1, <1>5, <2>1, <2>2, <2>3, HandledFrame
<1>7. ASSUME found = Elems(asked[t]), \A h \in found : reg[h] = "other",
             stage' = [stage EXCEPT ![t] = "out"],
             out' = [out EXCEPT ![t] = Elems(Other)], UNCHANGED vars
      PROVE  Handled'
  <2>1. stage'[t] = "out" /\ out'[t] = Elems(Other) /\ pc' = pc /\ Frame1
    BY <1>1, <1>7 DEF Handled, CallTypes, vars
  <2>2. CallTypes' /\ Caller(t)'
    <3>1. CallTypes'
      BY <1>1, <1>7 DEF Handled, CallTypes
    <3>2. Caller(t)'
      BY <1>1, <2>1 DEF Caller
    <3> QED
      BY <3>1, <3>2
  <2>3. ~stale'[t]
    BY <1>1, <1>4, <1>7
  <2>4. out'[t] = Common(asked'[t])
    <3>1. \A h \in Elems(asked[t]) : Made[h] = "other"
      BY <1>3, <1>7
    <3>2. Common(asked[t]) = Elems(Other)
      BY <1>2, <3>1 DEF Common
    <3> QED
      BY <1>1, <2>1, <3>2
  <2> QED
    BY <1>1, <1>5, <2>1, <2>2, <2>3, <2>4, HandledFrame
<1>8. ASSUME found = Elems(asked[t]), stage' = [stage EXCEPT ![t] = "inside"],
             Ask(t), UNCHANGED out
      PROVE  Handled'
  <2>1. /\ stage'[t] = "inside" /\ out'[t] = None /\ Frame1 /\ pc'[t] = "check"
    <3>1. pc' = [pc EXCEPT ![t] = "check"] /\ pc \in [Thread -> Labels]
      BY <1>8 DEF Ask, Goto, Inv, Types, TypeOK
    <3> QED
      BY <1>1, <1>8, <3>1 DEF Handled, CallTypes
  <2>2. ~stale'[t]
    BY <1>1, <1>4, <1>8
  <2>3. CallTypes'
    BY <1>1, <1>8 DEF Handled, CallTypes
  <2>4. Caller(t)'
    BY <1>1, <2>1, <2>2 DEF Handled, Caller
  <2> QED
    BY <1>1, <1>5, <2>1, <2>3, <2>4, HandledFrame
<1> QED
  BY <1>6, <1>7, <1>8 DEF Lookup

LEMMA InsideHandled ==
  ASSUME Inv, Handled, NEW t \in Thread, Inside(t)
  PROVE  Handled'
<1>1. /\ stage[t] = "inside" /\ Work(t) /\ UNCHANGED handles /\ out[t] = None
      /\ ~stale[t]
  BY DEF Inside, Handled, Caller
<1>2. /\ UNCHANGED <<published, added>> /\ pc'[t] # "idle"
      /\ \A u \in Thread \ {t} : pc'[u] = pc[u]
  <2>1. pc \in [Thread -> Labels]
    BY DEF Inv, Types, TypeOK
  <2>2. /\ UNCHANGED <<published, added>>
        /\ \E l \in Labels \ {"idle"} : pc' = [pc EXCEPT ![t] = l]
    BY <1>1 DEF Work, CheckSorted, Less, SwapLoad, SwapStore, SwapStored, TakeRange, Compare,
                Keep, Cut, Flag, CopyLength, CopyCell, Goto, Panic, NextElement, Labels, locals, shared
  <2> QED
    BY <2>1, <2>2
<1>3. Registry' /\ CallTypes'
  BY <1>1 DEF Handled, Registry, CallTypes, Made, handles
<1>4. Caller(t)'
  BY <1>1, <1>2 DEF Handled, Caller, handles
<1> QED
  BY <1>1, <1>2, <1>3, <1>4, HandledFrame DEF handles

\* The answer is made of the copy, which is exact, so that it is what the sets
\* have in common, whoever freed their handles meanwhile.
LEMMA LeaveHandled ==
  ASSUME Inv, Handled, NEW t \in Thread, Leave(t)
  PROVE  Handled'
<1> DEFINE hs == asked[t]
           ss == [k \in DOMAIN hs |-> IdsOf(Made[hs[k]], got[t])]
<1>1. /\ stage[t] = "inside" /\ pc[t] = "done"
      /\ stage' = [stage EXCEPT ![t] = "out"] /\ out' = [out EXCEPT ![t] = Elems(Intersect(ss))]
      /\ pc' = [pc EXCEPT ![t] = "idle"]
      /\ UNCHANGED <<published, added, reg, next, asked, freed, stale>>
  BY DEF Leave, Done, Goto, shared
<1>2. hs \in Query /\ ~stale[t] /\ (published \/ t = Owner)
  BY <1>1 DEF Handled, CallTypes, Caller
<1>3. /\ hs # <<>> /\ Elems(hs) # {} /\ Elems(hs) \subseteq {1, 2}
      /\ Len(hs) \in 1..2 /\ DOMAIN hs = 1..Len(hs) /\ Elems(hs) = {hs[k] : k \in 1..Len(hs)}
  BY <1>2, QueryFacts
<1>4. got[t] \in AscendingSeqs /\ Elems(got[t]) = added
  <2>1. got[t] \in Seq(Nat)
    BY DEF Inv, Types
  <2>2. Increasing(got[t]) /\ Elems(got[t]) = added
    BY <1>1, InvIsExact DEF ExactAnswers
  <2>3. DOMAIN got[t] = 1..Len(got[t])
    BY <2>1, LenProperties
  <2> QED
    BY <2>1, <2>2, <2>3 DEF AscendingSeqs, Ascending, Increasing
<1>5. Other \in AscendingSeqs
  <2>1. DOMAIN Other = 1..Len(Other)
    BY HandleAssumption, LenProperties
  <2> QED
    BY <2>1, HandleAssumption DEF AscendingSeqs, Ascending, Increasing
<1> DEFINE of(h) == IF Made[h] = "shared" THEN added ELSE Elems(Other)
<1>6. \A k \in 1..Len(hs) : ss[k] \in AscendingSeqs /\ Elems(ss[k]) = of(hs[k])
  <2> TAKE k \in 1..Len(hs)
  <2>1. ss[k] = IF Made[hs[k]] = "shared" THEN got[t] ELSE Other
    BY <1>3 DEF IdsOf
  <2> HIDE DEF ss
  <2> QED
    BY <1>4, <1>5, <2>1
<1>7. ss \in Seq(AscendingSeqs) /\ Len(ss) = Len(hs) /\ ss # <<>>
  <2>1. ss \in [1..Len(hs) -> AscendingSeqs]
    BY <1>3, <1>6
  <2> HIDE DEF ss
  <2>2. ss \in Seq(AscendingSeqs) /\ Len(ss) = Len(hs)
    BY <1>3, <2>1
  <2> QED
    BY <1>3, <2>2, EmptySeq
<1>8. Elems(Intersect(ss)) = Common(hs)
  <2> HIDE DEF ss
  <2>1. Elems(Intersect(ss)) = InAll(ss)
    BY <1>7, IntersectIsIntersection
  <2>2. InAll(ss) = {x \in of(hs[1]) : \A k \in 1..Len(hs) : x \in of(hs[k])}
    BY <1>3, <1>6, <1>7 DEF InAll
  <2>3. Common(hs) = {x \in UNION {of(h) : h \in Elems(hs)} : \A h \in Elems(hs) : x \in of(h)}
    BY DEF Common
  <2> HIDE DEF of
  <2>4. 1 \in 1..Len(hs)
    BY <1>3
  <2>5. \A x : (\A h \in Elems(hs) : x \in of(h)) <=> (\A k \in 1..Len(hs) : x \in of(hs[k]))
    BY <1>3
  <2>6. \A x : (\A h \in Elems(hs) : x \in of(h)) => x \in of(hs[1]) /\ x \in UNION {of(h) : h \in Elems(hs)}
    BY <1>3, <2>4
  <2> QED
    BY <2>1, <2>2, <2>3, <2>5, <2>6
<1> HIDE DEF ss, hs
<1>9. /\ stage'[t] = "out" /\ out'[t] = Common(hs) /\ pc'[t] = "idle"
      /\ \A u \in Thread \ {t} : stage'[u] = stage[u] /\ out'[u] = out[u] /\ pc'[u] = pc[u]
  <2>1. pc \in [Thread -> Labels]
    BY DEF Inv, Types, TypeOK
  <2> QED
    BY <1>1, <1>8, <2>1 DEF Handled, CallTypes
<1>10. Registry' /\ CallTypes'
  BY <1>1 DEF Handled, Registry, CallTypes, Made
<1>11. Caller(t)'
  BY <1>1, <1>2, <1>9 DEF Caller
<1> QED
  BY <1>1, <1>2, <1>9, <1>10, <1>11, HandledFrame DEF hs

LEMMA CallStep ==
  ASSUME Careful, Inv, Handled, [CNext]_cvars
  PROVE  Inv' /\ Handled'
<1>1. Inv'
  BY CallIsSetStep, StepInv
<1>2. ASSUME UNCHANGED cvars PROVE Handled'
  BY <1>2 DEF cvars, vars, handles, shared, locals, Handled, Registry, CallTypes, Caller, Made,
              HandlesKeepTheirSets, Common
<1>3. ASSUME NEW s \in Batch, SetAddMany(s) PROVE Handled'
  BY <1>3, SetAddManyHandled
<1>4. ASSUME NEW t \in Thread, NEW h \in DOMAIN reg, SetFree(t, h) PROVE Handled'
  BY <1>4, SetFreeHandled
<1>5. ASSUME NEW t \in Thread, NEW hs \in Query, Call(t, hs) PROVE Handled'
  BY <1>5, CallHandled
<1>6. ASSUME NEW t \in Thread, Proceed(t) PROVE Handled'
  BY <1>6, LookupHandled, InsideHandled, LeaveHandled DEF Proceed
<1> QED
  BY <1>1, <1>2, <1>3, <1>4, <1>5, <1>6, SetNewHandled, HandOutHandled DEF CNext

\* A handle is dead once it is freed, and means one set as long as it lives: the
\* answer of a call is what the sets of its handles have in common, whatever
\* other threads free or ask meanwhile.
THEOREM HandlesAreKept == ASSUME Careful PROVE CSpec => []HandlesKeepTheirSets
<1>1. CInit => Inv /\ Handled
  BY InitInv, InitHandled DEF CInit
<1>2. Inv /\ Handled /\ [CNext]_cvars => (Inv /\ Handled)'
  BY CallStep
<1>3. Inv /\ Handled => HandlesKeepTheirSets
  BY DEF Handled
<1> QED
  BY <1>1, <1>2, <1>3, PTL DEF CSpec
=============================================================================
