-------------------------------- MODULE Mphf --------------------------------
(***************************************************************************)
(* The minimal perfect hash of internal/mphf.  Keys are grouped in buckets *)
(* by h1; every bucket, the largest first, gets the first displacement     *)
(* that puts its keys in free slots of a table with room to spare.  When a *)
(* bucket finds none, all of it starts again with another h2.  The id of a *)
(* key is the rank of its slot.                                            *)
(*                                                                         *)
(* Words are sets of bits.  h1 and h2 are arbitrary functions of the key:  *)
(* a bijective mixer, two seeds and a remainder.                           *)
(***************************************************************************)
EXTENDS Integers, Sequences, FiniteSets

CONSTANTS
  WordBits,         \* bits of a word: 64
  BlockWords,       \* words of a block of the rank directory: 8
  MaxDisplacement,  \* displacements tried: 2^24 - 1
  MaxAttempts       \* values of seed2 tried: 1024

ASSUME MphfAssumption ==
  {WordBits, BlockWords, MaxDisplacement, MaxAttempts} \subseteq Nat \ {0}

\* 2 to the power i.
Pow2[i \in Nat] == IF i = 0 THEN 1 ELSE 2 * Pow2[i - 1]

\* A displacement fits a word: 24 bits of 64.
ASSUME DisplacementFits == MaxDisplacement < Pow2[WordBits]

VARIABLES
  stage,       \* "none", "seed", "place", "built", "failed"
  keys,        \* the keys, in the order given
  h1, h2,      \* bucket and slot of each key, before displacement
  attempt,     \* how many values of seed2 were tried
  todo,        \* the buckets not yet placed
  disp,        \* G: the displacement of each bucket
  words,       \* the occupied slots
  packed,      \* gpack: the displacements, packed
  width,       \* gw: the bits of one displacement
  before       \* l1: the occupied slots before each block

mphfVars == <<stage, keys, h1, h2, attempt, todo, disp, words, packed, width, before>>

Elems(s) == {s[i] : i \in DOMAIN s}

\* Buckets and slots for n keys with 3 keys to a bucket and 23% of spare slots.
NB(n) == n \div 3 + 1
M(n) == LET m == (n * 123) \div 100 + 1 IN IF m <= NB(n) THEN NB(n) + 1 ELSE m

-----------------------------------------------------------------------------
(* Bits in words *)

BitSet(w, i) == i % WordBits \in w[i \div WordBits]
SetBits(w, S) == [x \in DOMAIN w |-> w[x] \cup {i % WordBits : i \in {s \in S : s \div WordBits = x}}]
NoWords(m) == [x \in 0..(m + WordBits - 1) \div WordBits - 1 |-> {}]
OnesIn(w, S) == Cardinality(UNION {{x} \X w[x] : x \in S \cap DOMAIN w})

\* buildRank: the bits set before every block.
Blocks(w) == (Cardinality(DOMAIN w) + BlockWords - 1) \div BlockWords
BuildRank(w) == [b \in 0..Blocks(w) |-> OnesIn(w, 0..b * BlockWords - 1)]

\* A bug for the checks to find: the word is not masked at the position.
RankWholeWord(w, l1, pos) ==
  LET x == pos \div WordBits
      b == x \div BlockWords
  IN  l1[b] + OnesIn(w, b * BlockWords..x)

\* rank: the bits set before a position.
Rank(w, l1, pos) ==
  LET x == pos \div WordBits
      off == pos % WordBits
      b == x \div BlockWords
  IN  l1[b] + OnesIn(w, b * BlockWords..x - 1)
        + Cardinality({i \in w[x] : i < off})

\* The bits of a value that fits a word.
Bits(v) == {i \in 0..WordBits - 1 : (v \div Pow2[i]) % 2 = 1}

\* bits.Len32 of the largest displacement, at least 1.
Width(g) ==
  LET fits == {w \in 1..WordBits : \A j \in DOMAIN g : g[j] < Pow2[w]}
  IN  CHOOSE w \in fits : \A v \in fits : w <= v

\* A bug for the checks to find: displacements that straddle two words.
PackNoSpill(g, w) ==
  [x \in 0..(Cardinality(DOMAIN g) * w + WordBits - 1) \div WordBits |->
     {i \in 0..WordBits - 1 :
        \E j \in DOMAIN g : /\ (j * w) \div WordBits = x
                            /\ i - ((j * w) % WordBits) \in Bits(g[j])}]

\* packG: the value of bucket j starts at bit j * w; what does not fit in its
\* word goes to the low bits of the next.
Pack(g, w) ==
  [x \in 0..(Cardinality(DOMAIN g) * w + WordBits - 1) \div WordBits |->
     {i \in 0..WordBits - 1 :
        \E j \in DOMAIN g :
          LET off == (j * w) % WordBits
          IN  \/ (j * w) \div WordBits = x /\ i - off \in Bits(g[j])
              \/ /\ (j * w) \div WordBits + 1 = x /\ off + w > WordBits
                 /\ i + WordBits - off \in Bits(g[j])}]

\* gval: the displacement of bucket j.
GVal(p, w, j) ==
  LET x == (j * w) \div WordBits
      off == (j * w) % WordBits
      low == {i - off : i \in {k \in p[x] : k >= off}}
      high == IF off + w > WordBits THEN {i + WordBits - off : i \in p[x + 1]} ELSE {}
      read == {i \in low \cup high : i < w}
  IN  CHOOSE v \in 0..Pow2[w] - 1 : Bits(v) = read

-----------------------------------------------------------------------------
(* Build *)

MphfInit ==
  /\ stage = "none" /\ keys = <<>>
  /\ h1 = <<>> /\ h2 = <<>>
  /\ attempt = 0 /\ todo = {} /\ disp = <<>>
  /\ words = <<>> /\ packed = <<>> /\ width = 0 /\ before = <<>>

\* The buckets of the keys; no key at all is an index of nothing.
Build(ks) ==
  /\ stage = "none"
  /\ keys' = ks
  /\ h1' \in [Elems(ks) -> 0..NB(Len(ks)) - 1]
  /\ stage' = IF ks = <<>> THEN "built" ELSE "seed"
  /\ UNCHANGED <<h2, attempt, todo, disp, words, packed, width, before>>

Bucket(j) == {i \in DOMAIN keys : h1[keys[i]] = j}

\* A bug for the checks to find: slots of the failed attempt stay occupied.
SeedKeepsWords ==
  /\ stage = "seed" /\ attempt < MaxAttempts
  /\ attempt' = attempt + 1
  /\ h2' \in [Elems(keys) -> 0..M(Len(keys)) - 1]
  /\ disp' = [j \in 0..NB(Len(keys)) - 1 |-> 0]
  /\ words' = IF words = <<>> THEN NoWords(M(Len(keys))) ELSE words
  /\ todo' = {h1[k] : k \in Elems(keys)}
  /\ stage' = "place"
  /\ UNCHANGED <<keys, h1, packed, width, before>>

\* A bug for the checks to find: one attempt too many.
SeedOnceMore ==
  /\ stage = "seed" /\ attempt <= MaxAttempts
  /\ attempt' = attempt + 1
  /\ h2' \in [Elems(keys) -> 0..M(Len(keys)) - 1]
  /\ disp' = [j \in 0..NB(Len(keys)) - 1 |-> 0]
  /\ words' = NoWords(M(Len(keys)))
  /\ todo' = {h1[k] : k \in Elems(keys)}
  /\ stage' = "place"
  /\ UNCHANGED <<keys, h1, packed, width, before>>

\* A bug for the checks to find: the attempt is not counted.
SeedUncounted ==
  /\ stage = "seed" /\ attempt < MaxAttempts
  /\ h2' \in [Elems(keys) -> 0..M(Len(keys)) - 1]
  /\ disp' = [j \in 0..NB(Len(keys)) - 1 |-> 0]
  /\ words' = NoWords(M(Len(keys)))
  /\ todo' = {h1[k] : k \in Elems(keys)}
  /\ stage' = "place"
  /\ UNCHANGED <<attempt, keys, h1, packed, width, before>>

\* The next seed2, with an empty table.
Seed ==
  /\ stage = "seed" /\ attempt < MaxAttempts
  /\ attempt' = attempt + 1
  /\ h2' \in [Elems(keys) -> 0..M(Len(keys)) - 1]
  /\ disp' = [j \in 0..NB(Len(keys)) - 1 |-> 0]
  /\ words' = NoWords(M(Len(keys)))
  /\ todo' = {h1[k] : k \in Elems(keys)}
  /\ stage' = "place"
  /\ UNCHANGED <<keys, h1, packed, width, before>>

GiveUp ==
  /\ stage = "seed" /\ attempt = MaxAttempts
  /\ stage' = "failed"
  /\ UNCHANGED <<keys, h1, h2, attempt, todo, disp, words, packed, width, before>>

\* The slot of the i-th key under displacement d.
At(i, d) == (h2[keys[i]] + d) % M(Len(keys))

\* All keys of bucket j would get slots that are free and distinct.
Fits(j, d) ==
  \A i \in Bucket(j) :
    /\ ~BitSet(words, At(i, d))
    /\ \A k \in Bucket(j) : k # i => At(k, d) # At(i, d)

\* placeAll: one bucket, one of the largest left, gets its first displacement,
\* or the attempt has failed.
Place(j) ==
  /\ stage = "place" /\ j \in todo
  /\ \A k \in todo : Cardinality(Bucket(k)) <= Cardinality(Bucket(j))
  /\ \/ \E d \in 0..MaxDisplacement - 1 :
          /\ Fits(j, d) /\ \A e \in 0..d - 1 : ~Fits(j, e)
          /\ disp' = [disp EXCEPT ![j] = d]
          /\ words' = SetBits(words, {At(i, d) : i \in Bucket(j)})
          /\ todo' = todo \ {j}
          /\ UNCHANGED <<stage, h2>>
     \/ /\ \A d \in 0..MaxDisplacement - 1 : ~Fits(j, d)
        /\ stage' = "seed" /\ h2' = <<>>
        /\ UNCHANGED <<todo, disp, words>>
  /\ UNCHANGED <<keys, h1, attempt, packed, width, before>>

\* packG and buildRank.
PackAndRank ==
  /\ stage = "place" /\ todo = {}
  /\ width' = Width(disp)
  /\ packed' = Pack(disp, width')
  /\ before' = BuildRank(words)
  /\ stage' = "built"
  /\ UNCHANGED <<keys, h1, h2, attempt, todo, disp, words>>

BuildStep ==
  Seed \/ GiveUp \/ (\E j \in todo : Place(j)) \/ PackAndRank

\* Through every attempt the table is exact: the keys of the buckets placed in
\* this attempt have slots of their own, and no other slot is occupied, so no
\* attempt meets what an earlier one left behind (mphf.go:113-119, 150-157).
TableExact ==
  stage \in {"place", "built"} /\ keys # <<>> =>
    LET placed == {i \in DOMAIN keys : h1[keys[i]] \notin todo}
        slot(i) == At(i, disp[h1[keys[i]]])
    IN  /\ \A s \in 0..M(Len(keys)) - 1 :
             BitSet(words, s) <=> \E i \in placed : slot(i) = s
        /\ \A i, k \in placed : slot(i) = slot(k) => i = k

-----------------------------------------------------------------------------
(* Lookup *)

NoId == -1

\* The id that the slot of a key leads to.
IdOfSlot(pos) == IF BitSet(words, pos) THEN Rank(words, before, pos) ELSE NoId

\* Lookup of a key that was indexed; another key leads to any slot whatever.
IdOf(k) == IdOfSlot((h2[k] + GVal(packed, width, h1[k])) % M(Len(keys)))

\* An index that was built is perfect: its n keys have all the ids 0 to n - 1,
\* each therefore its own and none of them given twice, after any number of
\* failed attempts, through the packed displacements and the two-level rank
\* (mphf.go:12).
PerfectHash ==
  stage = "built" => {IdOf(k) : k \in Elems(keys)} = 0..Len(keys) - 1
=============================================================================
