SPECIFICATION Spec
CONSTANTS
  l1 = l1
  l2 = l2
  Lights <- TwoLights
  Writes = {TRUE, FALSE}
  MaxRequests = 3
  Faults = {"lost", "late", "merged", "notimer"}
CHECK_DEADLOCK FALSE
SYMMETRY LightSymmetry
INVARIANTS TypeOK OwnAnswer ReaderCanWake
