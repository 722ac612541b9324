SPECIFICATION FairSpec
CONSTANTS
  l1 = l1
  l2 = l2
  Lights <- OneLight
  Writes = {TRUE, FALSE}
  MaxRequests = 3
  Faults = {"late"}
CHECK_DEADLOCK FALSE
INVARIANTS SenderCanSend MirrorsLight
PROPERTY LoopReturns
