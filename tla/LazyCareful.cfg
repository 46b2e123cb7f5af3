SPECIFICATION FairCSpec
CONSTANTS
  Thread = {t1, t2}
  Owner = t1
  Batch <- SmallBatch
  MaxLen = 4
  Careful = TRUE
  Other <- TwoAndFour
  Query <- Queries
  Missing = Missing
  None = None
  t1 = t1
  t2 = t2
INVARIANTS TypeOK ExactAnswers FlagTellsTruth HandlesKeepTheirSets
PROPERTIES EveryQueryReturns
