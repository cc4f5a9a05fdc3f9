SPECIFICATION Spec
CONSTANTS
  Weights = {1, 2}
  CodeMod = 2
  MaxStudents = 2
  MaxTests = 2
  MaxReqs = 2
  Descriptions <- MCDescriptions
INVARIANTS OwnExecutable SummaryAddsUp SilentCode ScreenAddsUp LabelsTellApart LevelsNested
CHECK_DEADLOCK FALSE
