SPECIFICATION Spec
CONSTANTS
  Strings <- MCStrings
  Parts <- MCParts
  MaxParts = 3
INVARIANTS ShownAsMeant LostOnly
CHECK_DEADLOCK FALSE
