----------------------------- MODULE MCEngines -----------------------------
(* Batches of up to five ids and one to four shards over one to three      *)
(* workers; universes of 3-bit ids.                                        *)
EXTENDS Engines

SomeIds(S, n) == UNION {[1..k -> S] : k \in 0..n}

\* Batches with repeats inside chunks and across them; shards with repeats.
SomeSearches ==
  [batch : SomeIds(1..3, 4) \cup {<<3, 1, 3, 2, 1>>},
   shard : {<<>>, <<2>>, <<2, 1, 2>>, <<3, 1>>}]

\* Ids inside and outside the universe, given out of order and twice.
SomeCounts ==
  {[universe |-> u, shards |-> n, a |-> ab[1], b |-> ab[2]] :
     u \in 0..Width - 1, n \in 1..4,
     ab \in {<< <<>>, <<>> >>, << <<5, 0, 1, 4, 1, 2>>, <<7, 2, 0, 1, 4>> >>,
             << <<6, 7, 3, 4>>, <<4, 3, 7, 5, 6>> >>,
             << <<0, 1, 2, 3, 4, 5, 6, 7>>, <<0, 1, 2, 3, 4, 5, 6, 7>> >>}}

\* Bitsets of no word to two vectors and a rest, of different lengths.
SomeWords == {<<>>, <<{}>>, <<{0, 1}>>, <<{}, {1}>>, <<{1}, {}, {0}>>,
              <<{0, 1}, {1}, {}, {0}, {0, 1}>>, <<{1}, {1}, {0, 1}, {}, {}, {1}>>}
SomeBitsets == [words : SomeWords, with : SomeWords, tier : {"avx512", "scalar"}]

\* Tables of up to three entries, a term may come twice; their synonyms are fewer
\* than, as many as, and more than an offset can count.
SomeTables ==
  [entries : SomeIds([term : 1..2, synonyms : {<<>>, <<7>>, <<5, 6>>}], 3), term : 1..3]
=============================================================================
