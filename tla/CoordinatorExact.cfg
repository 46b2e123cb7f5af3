SPECIFICATION FairSpec
CONSTANTS
  Nodes = 2
  Words = 3
  Client = {c1, c2}
  Name = {a, b}
  Bit = {x}
  Call <- StoredCalls
  Budget <- AloneOrTwo
  c1 = c1
  c2 = c2
  a = a
  b = b
  x = x
  NoCall = NoCall
  Misread = {1000}
  Piece = 6
INVARIANTS TypeOK AnswersExact OneReader
PROPERTIES EveryCallReturns
CHECK_DEADLOCK FALSE
