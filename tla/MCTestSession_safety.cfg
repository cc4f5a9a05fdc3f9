SPECIFICATION Spec
CONSTANTS
  ExitCodes = {7, 256}
  MaxSyscalls = 2
  MaxOps = 3
INVARIANTS TypeOK StoppedBetweenOperations CrashCauses OwnReturn ExitReportTrue StartedFresh InjectionRestored OneChild NoOrphan
PROPERTIES ImplementsLifecycle
CHECK_DEADLOCK FALSE
