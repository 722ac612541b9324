SPECIFICATION Spec
CONSTANTS
  EndDevices <- File
  First = 3
  Count = 4
  EndDeviceMax = 5
  Leftovers <- Garbage
  MaxNotices = 3
CHECK_DEADLOCK FALSE
INVARIANTS TypeOK TablesAligned LatestNoticeLands
