SPECIFICATION Spec
CONSTANTS
  n1 = n1  n2 = n2  w1 = w1  w2 = w2 
  Name = {n1, n2}
  Worker = {w1, w2}
  Value <- MixedValue
  Request <- MixedRequest
  ChunkCells = 3
  Persistent = TRUE
  Overlap = TRUE
  IOErrors = TRUE
  Crashes = TRUE
  NoSet = NoSet  NoFile = NoFile  NoReq = NoReq  NoReply = NoReply  None = None

PROPERTY Linearizable
