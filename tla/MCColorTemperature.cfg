SPECIFICATION Spec
CONSTANTS
  First = 3
  Count = 1
  Radix = 4
  Commands <- ColorTemperature
  FreedReads = {}
  MaxDevIndex = 1
INVARIANTS DispatchFindsDevice
