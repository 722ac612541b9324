SPECIFICATION Spec
CONSTANTS
  First = 3
  Count = 1
  Radix = 4
  Commands <- OneKind
  FreedReads = {}
  MaxDevIndex = 4
INVARIANTS DevListBounded
