------------------------------ MODULE Engines -------------------------------
(***************************************************************************)
(* The engines of internal/addb and internal/simd, one call at a time:     *)
(*   - ParallelSearchEngine splits a batch of ids over goroutines and      *)
(*     merges what each of them found (search.go);                         *)
(*   - IntersectCount of a ShardedBitset splits the shards, and the        *)
(*     goroutines add to one total under a mutex (shard.go);               *)
(*   - the kernels of Kernels run in the caller.                           *)
(* A Bitset is the set of its positions.  Ids are w bits wide: the sums of *)
(* NewShardedBitset wrap.                                                  *)
(***************************************************************************)
EXTENDS Kernels

CONSTANTS
  Width,       \* 2^w: the number of ids
  Procs,       \* values of GOMAXPROCS
  Searches,    \* searches to ask for: [batch |-> ids, shard |-> ids]
  Counts,      \* counts to ask for: [universe, shards |-> n, a |-> ids, b |-> ids]
  Bitsets,     \* pairs of bitsets for the kernels: [words, with, tier]
  Tables       \* tables of synonyms: [entries, term]

Id == 0..Width - 1

ASSUME EnginesAssumption ==
  /\ Width \in Nat \ {0}
  /\ Procs \subseteq Nat \ {0} /\ \E p \in Procs : \A q \in Procs : q <= p
  /\ Searches \subseteq [batch : Seq(Id), shard : Seq(Id)]
  /\ Counts \subseteq [universe : Id, shards : Nat \ {0}, a : Seq(Id), b : Seq(Id)]
  /\ Bitsets \subseteq [words : Seq(SUBSET (0..WordBits - 1)),
                       with : Seq(SUBSET (0..WordBits - 1)), tier : {"avx512", "scalar"}]
  /\ Tables \subseteq [entries : Seq([term : Id, synonyms : Seq(Id)]), term : Id]

VARIABLES
  phase,       \* "idle", "search", "count" (goroutines run), "returned", "panic"
  job,         \* the call's arguments
  workers,     \* goroutines asked for
  pc,          \* of each goroutine: "off", "run", "add", "store", "done"
  at,          \* the next element of its chunk
  local,       \* what it found, or counted, so far
  loaded,      \* total, as it read it
  holder,      \* of the mutex: a goroutine, or Nobody
  results,     \* of a search, by goroutine
  total,       \* of a count, its answer in the end
  answer       \* of a search

vars == <<phase, job, workers, pc, at, local, loaded, holder, results, total, answer>>

MaxProcs == CHOOSE p \in Procs : \A q \in Procs : q <= p
Worker == 0..MaxProcs - 1
Nobody == -1
NoJob == <<>>

Init ==
  /\ phase = "idle" /\ job = NoJob /\ workers = 0
  /\ pc = [w \in Worker |-> "off"] /\ at = [w \in Worker |-> 0]
  /\ local = [w \in Worker |-> <<>>] /\ loaded = [w \in Worker |-> 0]
  /\ holder = Nobody /\ results = [w \in Worker |-> <<>>] /\ total = 0
  /\ answer = <<>>

-----------------------------------------------------------------------------
(* Bitsets over shards *)

\* The ids of a shard; the round-up wraps at the width of an id.
ShardBits(c) == ((c.universe + c.shards - 1) % Width) \div c.shards

\* Set and Has divide by ShardBits.
DividesByZero(c) == ShardBits(c) = 0 /\ (c.a # <<>> \/ c.b # <<>>)

Outside == -1
ShardOf(c, id) ==
  LET s == id \div ShardBits(c) IN IF s >= c.shards THEN Outside ELSE s

\* The bitset of shard s after Set of every id; ids outside are dropped.
Bits(c, ids, s) ==
  {id - s * ShardBits(c) : id \in {i \in Elems(ids) : ShardOf(c, i) = s}}

AndPopcount(a, b) == Cardinality(a \cap b)
CountOf(c, s) == AndPopcount(Bits(c, c.a, s), Bits(c, c.b, s))

Has(c, ids, id) ==
  LET s == ShardOf(c, id)
  IN  s # Outside /\ id - s * ShardBits(c) \in Bits(c, ids, s)

\* IntersectCountSerial.
SerialCount(c) == AddUp([s \in 1..c.shards |-> CountOf(c, s - 1)])

\* SparseSet of the same ids, some given to NewSparseSet and the others added one
\* by one before Finalize: AndCount by a merge, Has by binary search.
Sparse(ids) ==
  LET half == Len(ids) \div 2
  IN  Finalize(Finalize(SubSeq(ids, 1, half)) \o SubSeq(ids, half + 1, Len(ids)))
AndCount(a, b) == Len(IntersectSorted(Sparse(a), Sparse(b)))
SparseHas(ids, id) == ContainsSorted(Sparse(ids), id)

-----------------------------------------------------------------------------
(* Chunks and goroutines *)

\* How many elements the call divides.
Size == IF phase = "search" THEN Len(job.batch) ELSE job.shards

Chunk(n, k) == (n + k - 1) \div k
Hi(w) ==
  LET end == (w + 1) * Chunk(Size, workers) IN IF end > Size THEN Size ELSE end

\* k goroutines over n elements; those whose chunk is empty never start.
Fork(n, k, zero) ==
  LET lo(w) == w * Chunk(n, k)
  IN  /\ workers' = k
      /\ pc' = [w \in Worker |-> IF w < k /\ lo(w) < n THEN "run" ELSE "off"]
      /\ at' = [w \in Worker |-> IF w < k /\ lo(w) < n THEN lo(w) ELSE 0]
      /\ local' = [w \in Worker |-> zero]

Smaller(p, n) == IF p > n THEN n ELSE p

\* ParallelSearchEngine.
Search(j, p) ==
  /\ phase = "idle"
  /\ job' = j
  /\ \/ /\ j.batch = <<>> \/ j.shard = <<>>
        /\ phase' = "returned" /\ answer' = <<>>
        /\ UNCHANGED <<workers, pc, at, local>>
     \/ /\ j.batch # <<>> /\ j.shard # <<>>
        /\ phase' = "search" /\ Fork(Len(j.batch), Smaller(p, Len(j.batch)), <<>>)
        /\ UNCHANGED answer
  /\ UNCHANGED <<loaded, holder, results, total>>

\* Two bitsets are filled with a and b, then IntersectCount.
Count(c, p) ==
  /\ phase = "idle"
  /\ job' = c
  /\ \/ /\ DividesByZero(c)
        /\ phase' = "panic"
        /\ UNCHANGED <<workers, pc, at, local, total>>
     \/ /\ ~DividesByZero(c) /\ Smaller(p, c.shards) <= 1
        /\ phase' = "returned" /\ total' = SerialCount(c)
        /\ UNCHANGED <<workers, pc, at, local>>
     \/ /\ ~DividesByZero(c) /\ Smaller(p, c.shards) > 1
        /\ phase' = "count" /\ Fork(c.shards, Smaller(p, c.shards), 0)
        /\ UNCHANGED total
  /\ UNCHANGED <<loaded, holder, results, answer>>

\* ExtractSet of one bitset and AndPopcount of two.
Kernel(b) ==
  /\ phase = "idle"
  /\ job' = b /\ phase' = "returned"
  /\ answer' = ExtractSet(b.words, b.tier)
  /\ total' = SimdAndPopcount(b.words, b.with, b.tier)
  /\ UNCHANGED <<workers, pc, at, local, loaded, holder, results>>

\* NewSynonymStorage, then Synonyms of a term.
LookUp(t) ==
  /\ phase = "idle"
  /\ job' = t
  /\ answer' = Synonyms(NewSynonymStorage(t.entries), t.term)
  /\ phase' = IF answer' = OutOfRange THEN "panic" ELSE "returned"
  /\ UNCHANGED <<workers, pc, at, local, loaded, holder, results, total>>

\* One id of the chunk is looked for in the whole shard.
Look(w) ==
  /\ phase = "search" /\ pc[w] = "run" /\ at[w] < Hi(w)
  /\ LET q == job.batch[at[w] + 1]
     IN  local' = [local EXCEPT ![w] = IF q \in Elems(job.shard) THEN Append(@, q) ELSE @]
  /\ at' = [at EXCEPT ![w] = @ + 1]
  /\ UNCHANGED <<phase, job, workers, pc, loaded, holder, results, total, answer>>

Found(w) ==
  /\ phase = "search" /\ pc[w] = "run" /\ at[w] = Hi(w)
  /\ results' = [results EXCEPT ![w] = local[w]]
  /\ pc' = [pc EXCEPT ![w] = "done"]
  /\ UNCHANGED <<phase, job, workers, at, local, loaded, holder, total, answer>>

\* One shard is counted.
CountShard(w) ==
  /\ phase = "count" /\ pc[w] = "run" /\ at[w] < Hi(w)
  /\ local' = [local EXCEPT ![w] = @ + CountOf(job, at[w])]
  /\ at' = [at EXCEPT ![w] = @ + 1]
  /\ UNCHANGED <<phase, job, workers, pc, loaded, holder, results, total, answer>>

\* A bug for the checks to find: no mutex.
LockNothing(w) ==
  /\ phase = "count" /\ pc[w] = "run" /\ at[w] = Hi(w)
  /\ pc' = [pc EXCEPT ![w] = "add"]
  /\ UNCHANGED <<phase, job, workers, at, local, loaded, holder, results, total, answer>>

Lock(w) ==
  /\ phase = "count" /\ pc[w] = "run" /\ at[w] = Hi(w) /\ holder = Nobody
  /\ holder' = w
  /\ pc' = [pc EXCEPT ![w] = "add"]
  /\ UNCHANGED <<phase, job, workers, at, local, loaded, results, total, answer>>

\* total += c reads total, then writes it.
LoadTotal(w) ==
  /\ pc[w] = "add"
  /\ loaded' = [loaded EXCEPT ![w] = total]
  /\ pc' = [pc EXCEPT ![w] = "store"]
  /\ UNCHANGED <<phase, job, workers, at, local, holder, results, total, answer>>

\* A bug for the checks to find: the mutex stays locked.
StoreAndKeep(w) ==
  /\ pc[w] = "store"
  /\ total' = loaded[w] + local[w]
  /\ pc' = [pc EXCEPT ![w] = "done"]
  /\ UNCHANGED <<phase, job, workers, at, local, loaded, holder, results, answer>>

StoreTotal(w) ==
  /\ pc[w] = "store"
  /\ total' = loaded[w] + local[w]
  /\ holder' = Nobody
  /\ pc' = [pc EXCEPT ![w] = "done"]
  /\ UNCHANGED <<phase, job, workers, at, local, loaded, results, answer>>

Step(w) ==
  Look(w) \/ Found(w) \/ CountShard(w) \/ Lock(w) \/ LoadTotal(w) \/ StoreTotal(w)

-----------------------------------------------------------------------------
(* The answer *)

\* Each id of s once, where it comes first.
Unique(s) ==
  LET once[k \in 0..Len(s)] ==
        IF k = 0 THEN <<>>
        ELSE IF s[k] \in Elems(once[k - 1]) THEN once[k - 1] ELSE Append(once[k - 1], s[k])
  IN  once[Len(s)]

\* A bug for the checks to find: repeats across two chunks stay.
MergeChunks(parts) == Concat([w \in DOMAIN parts |-> Unique(parts[w])])

MergeUnique(parts) == Unique(Concat(parts))

\* SearchSortedBatch: the same search over a sorted shard.
SearchSortedBatch(sorted, batch) ==
  LET found[k \in 0..Len(batch)] ==
        IF k = 0 THEN <<>>
        ELSE LET q    == batch[k]
                 seen == \E i \in 1..k - 1 : batch[i] = q
             IN  IF ~seen /\ ContainsSorted(sorted, q) THEN Append(found[k - 1], q)
                 ELSE found[k - 1]
  IN  found[Len(batch)]

\* The wait group lets the caller go on when every goroutine is done.
Wait ==
  /\ phase \in {"search", "count"}
  /\ \A w \in Worker : pc[w] \in {"off", "done"}
  /\ answer' = IF phase = "search" THEN MergeUnique([k \in 1..workers |-> results[k - 1]])
                                   ELSE answer
  /\ phase' = "returned"
  /\ UNCHANGED <<job, workers, pc, at, local, loaded, holder, results, total>>

\* The caller goes on to its next call.
Again ==
  /\ phase = "returned"
  /\ phase' = "idle" /\ job' = NoJob /\ workers' = 0
  /\ pc' = [w \in Worker |-> "off"] /\ at' = [w \in Worker |-> 0]
  /\ local' = [w \in Worker |-> <<>>] /\ loaded' = [w \in Worker |-> 0]
  /\ results' = [w \in Worker |-> <<>>] /\ total' = 0 /\ answer' = <<>>
  /\ UNCHANGED holder

Next ==
  \/ \E j \in Searches, p \in Procs : Search(j, p)
  \/ \E c \in Counts, p \in Procs : Count(c, p)
  \/ \E b \in Bitsets : Kernel(b)
  \/ \E t \in Tables : LookUp(t)
  \/ \E w \in Worker : Step(w)
  \/ Wait \/ Again

\* Goroutines are scheduled; each takes the mutex once.
Fairness == WF_vars(Wait) /\ \A w \in Worker : WF_vars(Step(w))

Spec == Init /\ [][Next]_vars /\ Fairness

-----------------------------------------------------------------------------
(* Properties *)

\* Types, and the mutex is held by a goroutine that adds.
TypeOK ==
  /\ phase \in {"idle", "search", "count", "returned", "panic"}
  /\ workers \in 0..MaxProcs
  /\ pc \in [Worker -> {"off", "run", "add", "store", "done"}]
  /\ \A w \in Worker : at[w] \in Nat /\ loaded[w] \in Nat
  /\ total \in Nat
  /\ \A w \in Worker : holder = w <=> pc[w] \in {"add", "store"}

IsSearch == phase = "returned" /\ "batch" \in DOMAIN job
IsCount == phase = "returned" /\ "shards" \in DOMAIN job

\* A search returns the ids of the batch that the shard has, each once, in the
\* order of their first place in the batch, whatever the chunks and whoever
\* ends first, and so does the search of a sorted shard (search.go:46-48).
SearchExact ==
  IsSearch =>
    LET first(x) == CHOOSE i \in DOMAIN job.batch :
                      job.batch[i] = x /\ \A k \in 1..i - 1 : job.batch[k] # x
    IN  /\ Elems(answer) = Elems(job.batch) \cap Elems(job.shard)
        /\ \A i, k \in DOMAIN answer : i < k => first(answer[i]) < first(answer[k])
        /\ answer = SearchSortedBatch(Sort(job.shard), job.batch)

\* What the first k ids leave, for every k, when only those of A stay.
Kept(ids, A) ==
  LET kept[k \in 0..Len(ids)] ==
        IF k = 0 THEN <<>>
        ELSE IF ids[k] \in A THEN Append(kept[k - 1], ids[k]) ELSE kept[k - 1]
  IN  kept

Below(ids, cap) == Kept(ids, 0..cap - 1)[Len(ids)]

\* A count is the size of the intersection of the ids below the capacity, which
\* is no less than the universe unless its round-up wraps, in whatever order the
\* goroutines add to it, and the sparse sets of these ids count and contain the
\* same (shard.go:73, sparseset.go:8-11); only an empty universe, or one whose
\* round-up wraps, makes Set or Has divide by zero (shard.go:27, 36).
CountExact ==
  LET wraps == job.universe + job.shards > Width
      cap   == job.shards * ShardBits(job)
  IN  /\ phase = "panic" /\ "shards" \in DOMAIN job => job.universe = 0 \/ wraps
      /\ IsCount =>
           /\ ~wraps => cap >= job.universe
           /\ total = Cardinality({id \in Elems(job.a) \cap Elems(job.b) : id < cap})
           /\ total = AndCount(Below(job.a, cap), Below(job.b, cap))
           /\ cap > 0 => \A id \in Id : Has(job, job.a, id) = SparseHas(Below(job.a, cap), id)

\* The kernels find every bit once and in increasing order and count every common
\* bit, in vectors as word by word, whatever is left after the last whole vector,
\* and the shorter operand bounds the count (and_popcount.c:11-22, extract.c).
KernelsExact ==
  phase = "returned" /\ "tier" \in DOMAIN job =>
    LET bits(ws) == UNION {{(i - 1) * WordBits + p : p \in ws[i]} : i \in DOMAIN ws}
    IN  /\ Elems(answer) = bits(job.words)
        /\ \A i \in 2..Len(answer) : answer[i - 1] < answer[i]
        /\ total = Cardinality(bits(job.words) \cap bits(job.with))

\* A term's synonyms are those of its first entry and nobody else's, as long as
\* that entry ends before the 2^32nd synonym, however far the table goes on behind
\* it; a term without an entry has none.  Where an entry ends exactly there its end
\* wraps to 0 and the lookup panics (synonyms.go:37, 55-57).
SynonymsExact ==
  "entries" \in DOMAIN job =>
    LET es == job.entries
        own == {k \in DOMAIN es : es[k].term = job.term /\
                                  \A i \in 1..k - 1 : es[i].term # job.term}
        upTo(k) == UNION {{<<j, i>> : i \in DOMAIN es[j].synonyms} : j \in 1..k}
    IN  /\ own = {} => phase = "returned" /\ answer = <<>>
        /\ \A k \in own : Cardinality(upTo(k)) < Wrap =>
             phase = "returned" /\ answer = es[k].synonyms

\* Every call returns, unless Set divides by zero.
CallsReturn == (phase \in {"search", "count"}) ~> (phase = "returned")
=============================================================================
