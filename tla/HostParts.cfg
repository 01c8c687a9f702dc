CONSTANTS
  Conn = {c1, c2, c3, s}
  Outbound = {s}
  MaxConnections = 2
  Game = game
  Proc = {game}
  Caller = {"frame", "cleanup", "shutdown"}
  MaxNal = 4
  MaxPayload = 3
  SequenceSize = 3
  MaxFrames = 3
  MaxFull = 2
  MaxPages = 3
  FrameLimit = 2
  PageLimit = 2
  Modifier = {"shift"}
  Letter = {"a"}
  Rate = 2
  MaxStrokes = 3
  MaxFaults = 1
  MaxErrors = 3
  Finger = {f1, f2}
  MaxMoves = 3
  Limit = 2
  Second = 2
  Capacity = 7
  MaxSent = 4
  MaxTicks = 4
  Link = {l1, l2, l3}
  MaxChecks = 2
  Target = {"linux", "win32"}
  MaxRollouts = 1
  Claims = {{}, {"keys"}, {"pad"}, {"keys", "pad", "rumble", "av1"}}
  Bindings = {{}, {"input"}, {"capture"}, {"input", "capture", "audio"}}
SPECIFICATION FairHostPartsSpec
INVARIANTS ReportsTruth AgentOwnsPlay TrafficIsWhole InputFollows ToolsAreSafe
PROPERTIES StopLeavesNoSurvivor StoppedGamesEnd
CHECK_DEADLOCK FALSE
