SPECIFICATION Spec
CONSTANTS
  Nodes = 2
  Words = 3
  Client = {c1}
  Name = {a, b}
  Bit = {x}
  Call <- RetryCalls
  Budget <- Two
  Shards = 3
  Owner <- SplitOwner
  c1 = c1
  a = a
  b = b
  x = x
  NoCall = NoCall
  Misread = {1000}
  Piece = 6
INVARIANTS GatherReturns
