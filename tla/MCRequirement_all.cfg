SPECIFICATION Spec
CONSTANTS
  Operands <- MCOperands
  Plain <- MCPlain
  Unaries <- MCUnaries
  Infixes <- MCInfixes
  MaxLexemes = 6
  MaxOthers = 1
  MaxNumTokens = 7
INVARIANTS OperandsWhole RejectedOnly RejectedAlways SplitAtComparison AbortedOnly WhereComplete
CHECK_DEADLOCK FALSE
