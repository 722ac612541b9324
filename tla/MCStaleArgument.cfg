SPECIFICATION Spec
CONSTANTS
  Names <- CommandNames
  Deletes <- DeleteNames
  Lines <- Commands
  MaxLines = 2
  Size = 8
  MaxTokens = 3
  Width = 8
CHECK_DEADLOCK FALSE
INVARIANT DeletesOnlyNamed
