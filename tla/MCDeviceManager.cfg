SPECIFICATION Spec
CONSTANTS
  First = 3
  Count = 3
  Radix = 4
  Commands <- Dimmable
  FreedReads = {}
  MaxDevIndex = 4
INVARIANTS TypeOK StackInStep PoolInStep
PROPERTIES PublishSucceeds DeletedStaysDeleted
