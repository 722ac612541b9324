SPECIFICATION Spec
CONSTANTS
  Names <- CommandNames
  Deletes <- DeleteNames
  Lines <- Typed
  MaxLines = 2
  Size = 5
  MaxTokens = 3
  Width = 8
CHECK_DEADLOCK FALSE
INVARIANTS TypeOK RunsWhatWasTyped
