SPECIFICATION AccessSpec
CONSTANTS
  First = 1
  Count = 2
  Radix = 4
  Commands <- ServedKinds
  FreedReads = {2}
  MaxDevIndex = 1
INVARIANTS StackInStep DeclaredIsServed
PROPERTIES OwnBytes
