SPECIFICATION AckedSpec
CONSTANTS
  n1 = n1  n2 = n2  w1 = w1  w2 = w2 
  Name = {n1, n2}
  Worker = {w1, w2}
  Value <- WriteValue
  Request <- WriteRequest
  ChunkCells = 2
  Persistent = TRUE
  Overlap = FALSE
  IOErrors = FALSE
  Crashes = TRUE
  NoSet = NoSet  NoFile = NoFile  NoReq = NoReq  NoReply = NoReply  None = None
INVARIANT AckedSetSurvives
