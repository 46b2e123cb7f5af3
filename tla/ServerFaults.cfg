SPECIFICATION FairCliSpec
CONSTANTS
  n1 = n1  n2 = n2  w1 = w1  w2 = w2 
  Name = {n1, n2}
  Worker = {w1, w2}
  Value <- FaultValue
  Request <- FaultRequest
  ChunkCells = 2
  Persistent = TRUE
  Overlap = FALSE
  IOErrors = TRUE
  Crashes = TRUE
  Command <- FileCommand  Beside <- FaultBeside  Invalid = Invalid  Linked = Linked
  NoSet = NoSet  NoFile = NoFile  NoReq = NoReq  NoReply = NoReply  None = None
INVARIANT TypeOK ServedWasPut DiskFollowsMemory QueriesReadWholeSets BuildLeavesItsSet
PROPERTY EveryRequestAnswered
