SPECIFICATION Spec
CONSTANTS
  Thread = {t1, t2}
  Owner = t1
  Batch <- PairBatch
  MaxLen = 2
  Careful = FALSE
  t1 = t1
  t2 = t2
INVARIANTS ExactAnswers
