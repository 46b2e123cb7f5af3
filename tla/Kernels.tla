------------------------------ MODULE Kernels -------------------------------
(***************************************************************************)
(* The single-threaded kernels of internal/simd and internal/addb: the     *)
(* positions of a bitset's bits and the population count of an AND, word   *)
(* by word or in vectors of several words, and the flat table of synonyms. *)
(* A word is the set of its one bits; numbers in the table are Wrap wide.  *)
(***************************************************************************)
EXTENDS SetOps

CONSTANTS
  WordBits,    \* bits of a word
  Lanes,       \* words of a vector register
  Wrap         \* 2^w for the offsets and lengths of the table

ASSUME KernelAssumption == {WordBits, Lanes, Wrap} \subseteq Nat \ {0}

\* The bits of word i, 1 the first, as absolute positions in increasing order.
Positions(words, i) ==
  LET found[b \in 0..WordBits] ==
        IF b = 0 THEN <<>>
        ELSE IF b - 1 \in words[i] THEN Append(found[b - 1], (i - 1) * WordBits + b - 1)
        ELSE found[b - 1]
  IN  found[WordBits]

\* extract_scalar, and ExtractSet without cgo; from word lo to word hi.
Extract(words, lo, hi) == Concat([k \in 1..hi - lo + 1 |-> Positions(words, lo + k - 1)])

\* The words that fill whole vectors.
Whole(n) == (n \div Lanes) * Lanes

\* The vector that begins with word i: only lanes with a bit, from the lowest on.
ExtractVector(words, i) ==
  LET mask == {l \in 1..Lanes : words[i + l - 1] # {}}
  IN  Concat([l \in 1..Lanes |-> IF l \in mask THEN Positions(words, i + l - 1) ELSE <<>>])

Vectors(words) ==
  Concat([v \in 1..Len(words) \div Lanes |-> ExtractVector(words, (v - 1) * Lanes + 1)])

\* A bug for the checks to find: words after the last whole vector are forgotten.
ExtractNoTail(words, tier) ==
  IF tier = "avx512" THEN Vectors(words) ELSE Extract(words, 1, Len(words))

ExtractSet(words, tier) ==
  IF tier = "avx512"
  THEN Vectors(words) \o Extract(words, Whole(Len(words)) + 1, Len(words))
  ELSE Extract(words, 1, Len(words))

AddUp(f) ==
  LET sum[k \in 0..Len(f)] == IF k = 0 THEN 0 ELSE sum[k - 1] + f[k]
  IN  sum[Len(f)]

\* One sum per lane, their sum, and the words after the last whole vector; the
\* longer operand is cut to the shorter.
SimdAndPopcount(a, b, tier) ==
  LET n == IF Len(b) < Len(a) THEN Len(b) ELSE Len(a)
      count(i) == Cardinality(a[i] \cap b[i])
      lane(l) == AddUp([v \in 1..n \div Lanes |-> count((v - 1) * Lanes + l)])
  IN  IF tier = "avx512"
      THEN AddUp([l \in 1..Lanes |-> lane(l)])
             + AddUp([k \in 1..n - Whole(n) |-> count(Whole(n) + k)])
      ELSE AddUp([i \in 1..n |-> count(i)])

-----------------------------------------------------------------------------
(* Synonyms; an entry is [term, synonyms] *)

NoTable == [ids |-> <<>>, offsets |-> <<>>, lengths |-> <<>>, terms |-> <<>>]

\* A bug for the checks to find: the offset is taken after the ids were appended.
AddEntryLate(s, e) ==
  [ids     |-> s.ids \o e.synonyms,
   offsets |-> Append(s.offsets, (Len(s.ids) + Len(e.synonyms)) % Wrap),
   lengths |-> Append(s.lengths, Len(e.synonyms) % Wrap),
   terms   |-> Append(s.terms, e.term)]

AddEntry(s, e) ==
  [ids     |-> s.ids \o e.synonyms,
   offsets |-> Append(s.offsets, Len(s.ids) % Wrap),
   lengths |-> Append(s.lengths, Len(e.synonyms) % Wrap),
   terms   |-> Append(s.terms, e.term)]

NewSynonymStorage(entries) ==
  LET table[k \in 0..Len(entries)] ==
        IF k = 0 THEN NoTable ELSE AddEntry(table[k - 1], entries[k])
  IN  table[Len(entries)]

\* The panic of a slice expression.
OutOfRange == <<-1>>

\* The slice [lo:hi] of the first entry of the term; hi wraps like an offset.
Synonyms(s, term) ==
  LET found == {k \in DOMAIN s.terms : s.terms[k] = term}
      k     == CHOOSE k \in found : \A j \in found : k <= j
      lo    == s.offsets[k]
      hi    == (lo + s.lengths[k]) % Wrap
  IN  IF found = {} THEN <<>>
      ELSE IF hi < lo \/ hi > Len(s.ids) THEN OutOfRange
      ELSE SubSeq(s.ids, lo + 1, hi)
=============================================================================
