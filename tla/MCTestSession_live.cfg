SPECIFICATION FairSpec
CONSTANTS
  ExitCodes = {7}
  MaxSyscalls = 2
  MaxOps = 2
PROPERTIES OperationsFinish EventuallyTraceable
CHECK_DEADLOCK FALSE
