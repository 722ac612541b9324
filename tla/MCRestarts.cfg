SPECIFICATION FairRestartSpec
CONSTANTS
  First = 3
  Count = 3
  Radix = 4
  Commands <- ThreeKinds
  FreedReads = {}
  MaxDevIndex = 1
INVARIANTS ReplayKeepsIdentity DispatchFindsDevice RestartBringsBack
PROPERTIES PoolSpec InitEnds
