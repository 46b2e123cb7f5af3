SPECIFICATION Spec
CONSTANTS
  t1 = t1  t2 = t2  t3 = t3  t4 = t4
  EmptyTerm = e  e = e
  Term = {t1, t2, t3, t4, e}
  Hash <- Five
  Vocabulary <- Vocabularies
  IndexKeys <- Indexes
  Bases <- SomeBases
  Chains <- SomeChains
  SmallMax = 1
  MaxProbe = 2
  WordBits = 3
  BlockWords = 1
  MaxDisplacement = 5
  MaxAttempts = 2
CHECK_DEADLOCK FALSE
INVARIANT TypeOK TableExact PerfectHash LookupExact NoTermLost
PROPERTY BuildEnds
