SPECIFICATION Spec
CONSTANTS
  Word = 3
  MMAP_LENGTH = 48
  Padding = 3
  OFFSET_ADDITION = 5
  Sizes = {1, 2, 4, 22}
  Bytes = {0, 1}
  MaxOps = 4
INVARIANTS BuffersApart BreakpointStands ReadsExact
PROPERTIES WriteFrame
CHECK_DEADLOCK FALSE
