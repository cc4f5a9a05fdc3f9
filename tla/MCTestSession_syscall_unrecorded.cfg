SPECIFICATION Spec
CONSTANTS
  ExitCodes = {7}
  MaxSyscalls = 2
  MaxOps = 2
PROPERTIES EachSyscallRecorded
CHECK_DEADLOCK FALSE
