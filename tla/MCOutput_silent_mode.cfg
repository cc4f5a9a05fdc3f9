SPECIFICATION Spec
CONSTANTS
  Weights = {1, 2}
  CodeMod = 2
  MaxStudents = 2
  MaxTests = 2
  MaxReqs = 2
  Descriptions <- MCDescriptions
INVARIANTS SilentMode
CHECK_DEADLOCK FALSE
