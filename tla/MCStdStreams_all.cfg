SPECIFICATION FairSpec
CONSTANTS
  OutCap = 2
  InCap = 3
  Chunk = 2
  MaxOut = 3
  MaxSend = 4
  MaxOps = 5
INVARIANTS DeliveredOnce NothingLost
PROPERTIES FlushEnds SendsThatFitReturn
CHECK_DEADLOCK FALSE
