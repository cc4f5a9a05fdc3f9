SPECIFICATION Spec
CONSTANTS
  SectionLists <- MCSectionLists
  Touched <- MCTouched
  FlagSets = {{}, {"negative", "carry"}}
  Moves = {0, 1}
  MaxArgs = 1
  MaxOps = 2
INVARIANTS SnapshotTrue PcsVerdict StackAligned NestedFailure
CHECK_DEADLOCK FALSE
