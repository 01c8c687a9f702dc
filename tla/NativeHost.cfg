CONSTANTS
  HasGame = TRUE
  Proc = {"game", "encoder", "capture"}
  Caller = {"offer", "close", "sink"}
SPECIFICATION HostSpec
INVARIANTS NothingLeftRunning
PROPERTIES EverythingEnds AcceptedIsStarted
CHECK_DEADLOCK FALSE
