SPECIFICATION Spec
CONSTANTS
  Strings <- MCStrings
  Parts = {}
  MaxParts = 1
INVARIANTS StrParsable
CHECK_DEADLOCK FALSE
