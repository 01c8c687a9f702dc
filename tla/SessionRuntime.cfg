CONSTANTS
  MaxAttempts = 2
  MaxCycles = 2
  Window = 3
  MaxRequests = 2
  MaxSessions = 1
  MaxNumber = 2
  MaxMessages = 2
SPECIFICATION FairRuntimeSpec
PROPERTIES ControllerImplemented RecoveredIsSettled NoAttemptAfterEnd RetriesEnd
CHECK_DEADLOCK FALSE
