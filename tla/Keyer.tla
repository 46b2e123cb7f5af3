-------------------------------- MODULE Keyer --------------------------------
(***************************************************************************)
(* The Keyer of keyer.go: dense ids for terms whose hashes may collide.    *)
(* BuildKeyer drops repeated terms, gives every term the first candidate   *)
(* of its chain that no earlier term took, builds the perfect hash of      *)
(* these keys, and keeps the term of each id to tell members from others.  *)
(* BuildIndex builds the perfect hash of keys the caller brings.           *)
(***************************************************************************)
EXTENDS Mphf

CONSTANTS
  Term,        \* terms, indexed or asked for
  EmptyTerm,   \* the empty string
  Hash,        \* hashes of terms
  Vocabulary,  \* what BuildKeyer may be given: sequences of terms
  IndexKeys,   \* what BuildIndex may be given: sequences of keys
  Bases,       \* what ComputeDeterministicID may be
  Chains,      \* what candidato may be: for each probe, a bijection of Hash
  SmallMax,    \* keyerSmallMax: 4096
  MaxProbe     \* keyerMaxProbe: 16

ASSUME KeyerAssumption ==
  /\ Bases \subseteq [Term -> Hash]
  /\ \A c \in Chains : \A p \in 1..MaxProbe :
       c[p] \in [Hash -> Hash] /\ \A a, b \in Hash : a # b => c[p][a] # c[p][b]
  /\ Vocabulary \subseteq Seq(Term) /\ IndexKeys \subseteq Seq(Hash)
  /\ SmallMax \in Nat /\ MaxProbe \in Nat

VARIABLES
  phase,       \* "start", "probing", "hashing", "ready", "error", "lost"
               \* (an error of lines 128-136), "index" (BuildIndex was called)
  base, chain, \* ComputeDeterministicID and candidato
  vocab,       \* the terms given
  unique,      \* unicos: each once, in the order given
  chosen,      \* the keys of the first terms of unique
  probes,      \* k.maxProbe
  terms        \* k.terms: the term of id i at i + 1

vars == <<mphfVars, phase, base, chain, vocab, unique, chosen, probes, terms>>

Init ==
  /\ MphfInit
  /\ phase = "start"
  /\ base = <<>> /\ chain = <<>>
  /\ vocab = <<>> /\ unique = <<>> /\ chosen = <<>>
  /\ probes = 0 /\ terms = <<>>

\* The terms of v, each where it occurs first.
Dedup(v) ==
  LET first == {i \in DOMAIN v : \A j \in 1..i - 1 : v[j] # v[i]}
  IN  [k \in 1..Cardinality(first) |->
         v[CHOOSE i \in first : Cardinality({j \in first : j <= i}) = k]]

\* BuildKeyer up to the choice of representation, for any hash and candidates.
BuildKeyer(v) ==
  /\ phase = "start"
  /\ base' \in Bases /\ chain' \in Chains
  /\ vocab' = v /\ unique' = Dedup(v)
  /\ \/ Len(unique') <= SmallMax /\ terms' = unique' /\ phase' = "ready"
     \/ Len(unique') > SmallMax /\ phase' = "probing" /\ UNCHANGED terms
  /\ UNCHANGED <<mphfVars, chosen, probes>>

BuildIndex(ks) ==
  /\ phase = "start"
  /\ phase' = "index"
  /\ Build(ks)
  /\ UNCHANGED <<base, chain, vocab, unique, chosen, probes, terms>>

Candidate(t, p) == IF p = 0 THEN base[t] ELSE chain[p][base[t]]

Fresh(t, p) == Candidate(t, p) \notin Elems(chosen)

\* A bug for the checks to find: the longest probe is not kept.
ProbeForgets ==
  LET t == unique[Len(chosen) + 1]
  IN  /\ phase = "probing" /\ Len(chosen) < Len(unique)
      /\ \/ \E p \in 0..MaxProbe :
              /\ Fresh(t, p) /\ \A q \in 0..p - 1 : ~Fresh(t, q)
              /\ chosen' = Append(chosen, Candidate(t, p))
              /\ probes' = p
              /\ UNCHANGED phase
         \/ /\ \A p \in 0..MaxProbe : ~Fresh(t, p)
            /\ phase' = "error"
            /\ UNCHANGED <<chosen, probes>>
      /\ UNCHANGED <<mphfVars, base, chain, vocab, unique, terms>>

\* One term takes the first candidate of its chain that is free.
Probe ==
  LET t == unique[Len(chosen) + 1]
  IN  /\ phase = "probing" /\ Len(chosen) < Len(unique)
      /\ \/ \E p \in 0..MaxProbe :
              /\ Fresh(t, p) /\ \A q \in 0..p - 1 : ~Fresh(t, q)
              /\ chosen' = Append(chosen, Candidate(t, p))
              /\ probes' = IF p > probes THEN p ELSE probes
              /\ UNCHANGED phase
         \/ /\ \A p \in 0..MaxProbe : ~Fresh(t, p)
            /\ phase' = "error"
            /\ UNCHANGED <<chosen, probes>>
      /\ UNCHANGED <<mphfVars, base, chain, vocab, unique, terms>>

\* mphf.Build over the keys.
HashKeys ==
  /\ phase = "probing" /\ Len(chosen) = Len(unique)
  /\ phase' = "hashing"
  /\ Build(chosen)
  /\ UNCHANGED <<base, chain, vocab, unique, chosen, probes, terms>>

Hashing ==
  /\ phase \in {"hashing", "index"}
  /\ BuildStep
  /\ UNCHANGED <<phase, base, chain, vocab, unique, chosen, probes, terms>>

\* termosPorID, unless the perfect hash failed, a key has no id, or the term of
\* an id is the empty string, which nobody can tell from a missing one.
FillTerms ==
  /\ phase = "hashing" /\ stage \in {"built", "failed"}
  /\ LET ids == [i \in DOMAIN unique |-> IdOf(chosen[i])]
         filled == [d \in 1..Len(unique) |->
                      LET with == {i \in DOMAIN unique : ids[i] + 1 = d}
                      IN  IF with = {} THEN EmptyTerm ELSE unique[CHOOSE i \in with : TRUE]]
     IN  \/ /\ stage = "failed"
            /\ phase' = "error" /\ UNCHANGED terms
         \/ /\ stage = "built"
            /\ NoId \in Elems(ids) \/ EmptyTerm \in Elems(filled)
            /\ phase' = "lost" /\ UNCHANGED terms
         \/ /\ stage = "built"
            /\ NoId \notin Elems(ids) /\ EmptyTerm \notin Elems(filled)
            /\ terms' = filled /\ phase' = "ready"
  /\ UNCHANGED <<mphfVars, base, chain, vocab, unique, chosen, probes>>

Next ==
  \/ \E v \in Vocabulary : BuildKeyer(v)
  \/ \E ks \in IndexKeys : BuildIndex(ks)
  \/ Probe \/ HashKeys \/ Hashing \/ FillTerms

Spec == Init /\ [][Next]_vars /\ WF_vars(Next)

-----------------------------------------------------------------------------
(* Lookup *)

\* The slots that keys outside the index may lead to.
Foreign == [{Candidate(t, p) : t \in Term, p \in 0..probes} \ Elems(chosen)
              -> 0..M(Len(keys)) - 1]

\* A bug for the checks to find: the term is not compared.
LookupUnverified(t, f) ==
  IF stage # "built"
  THEN IF t \in Elems(terms) THEN (CHOOSE i \in DOMAIN terms : terms[i] = t) - 1 ELSE NoId
  ELSE LET id(p) == LET k == Candidate(t, p)
                    IN  IF k \in DOMAIN f THEN IdOfSlot(f[k]) ELSE IdOf(k)
           hits == {p \in 0..probes : id(p) # NoId}
       IN  IF hits = {} THEN NoId
           ELSE id(CHOOSE p \in hits : \A q \in hits : p <= q)

\* Lookup: the small map, or the candidates in order until one leads to an id
\* whose term is the one asked for.
Lookup(t, f) ==
  IF stage # "built"
  THEN IF t \in Elems(terms) THEN (CHOOSE i \in DOMAIN terms : terms[i] = t) - 1 ELSE NoId
  ELSE LET id(p) == LET k == Candidate(t, p)
                    IN  IF k \in DOMAIN f THEN IdOfSlot(f[k]) ELSE IdOf(k)
           hits == {p \in 0..probes : id(p) \in 0..Len(terms) - 1 /\ terms[id(p) + 1] = t}
       IN  IF hits = {} THEN NoId
           ELSE id(CHOOSE p \in hits : \A q \in hits : p <= q)

\* IDSet: the set of the ids of some terms, and the terms that have none.
IDSet(ts, f) ==
  LET without[k \in 0..Len(ts)] ==
        IF k = 0 THEN <<>>
        ELSE IF Lookup(ts[k], f) = NoId THEN Append(without[k - 1], ts[k]) ELSE without[k - 1]
  IN  [ids |-> {Lookup(t, f) : t \in Elems(ts)} \ {NoId}, missing |-> without[Len(ts)]]

-----------------------------------------------------------------------------
(* Properties *)

\* Types of the build's state.
TypeOK ==
  /\ stage \in {"none", "seed", "place", "built", "failed"}
  /\ phase \in {"start", "probing", "hashing", "ready", "error", "lost", "index"}
  /\ keys \in Seq(Hash) /\ chosen \in Seq(Hash) /\ terms \in Seq(Term)
  /\ attempt \in 0..MaxAttempts /\ probes \in 0..MaxProbe
  /\ \A j \in DOMAIN disp : disp[j] \in 0..MaxDisplacement - 1
  /\ \A x \in DOMAIN words : words[x] \subseteq 0..WordBits - 1

\* A vocabulary that was indexed is looked up exactly: each of its terms has an
\* id of its own in 0 .. n - 1 that leads back to it, and no other term has one,
\* whatever hashes and candidates collide and whatever slots foreign keys lead
\* to (keyer.go:27-41, Lookup and Term); the set of the vocabulary has all ids.
LookupExact ==
  phase = "ready" =>
    /\ Elems(terms) = Elems(vocab) /\ Cardinality(Elems(vocab)) = Len(terms)
    /\ \A f \in Foreign : \A t \in Term :
         LET id == Lookup(t, f)
         IN  IF t \in Elems(vocab) THEN id \in 0..Len(terms) - 1 /\ terms[id + 1] = t
                                   ELSE id = NoId
    /\ \A f \in Foreign : IDSet(vocab, f) = [ids |-> 0..Len(terms) - 1, missing |-> <<>>]

\* No term is lost between the perfect hash and the table of terms: the checks
\* of keyer.go:128-136 fail only for a vocabulary that has the empty term.
NoTermLost == phase = "lost" => EmptyTerm \in Elems(vocab)

\* A build ends: with an index, or with an error after finitely many attempts.
BuildEnds == <>(phase \in {"ready", "error", "lost"} \/ (phase = "index" /\ stage \in {"built", "failed"}))
=============================================================================
