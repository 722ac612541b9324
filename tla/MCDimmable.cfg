SPECIFICATION Spec
CONSTANTS
  First = 3
  Count = 1
  Radix = 4
  Commands <- Dimmable
  FreedReads = {}
  MaxDevIndex = 1
INVARIANTS DispatchFindsDevice
