SPECIFICATION Spec
CONSTANTS
  Width = 8
  Procs = {1, 2, 3}
  Searches <- SomeSearches
  Counts <- SomeCounts
  Bitsets <- SomeBitsets
  Tables <- SomeTables
  WordBits = 2
  Lanes = 2
  Wrap = 4
CHECK_DEADLOCK FALSE
INVARIANT TypeOK SearchExact CountExact KernelsExact SynonymsExact
PROPERTY CallsReturn
