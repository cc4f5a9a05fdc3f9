SPECIFICATION Spec
CONSTANTS
  Registrations <- MCRegistrations
  Arguments <- MCArguments
  Nodes <- MCNodes
  Lines <- MCLines
  SearchDepth = 1
  MaxInputs = 6
  regex_format <- MCFormat
  regex_valid <- MCValid
  regex_match <- MCMatch
INVARIANTS OwnSubmission StartsAsAsked
CHECK_DEADLOCK FALSE
