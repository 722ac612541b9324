SPECIFICATION FairSpec
CONSTANTS
  l1 = l1
  l2 = l2
  Lights <- OneLight
  Writes = {}
  MaxRequests = 3
  Faults = {"lost", "late", "merged"}
CHECK_DEADLOCK FALSE
INVARIANT SenderCanSend
PROPERTY LoopReturns
