CONSTANTS
  Session = {s1}
  Handle = {c1, c2}
  None = None
  MaxSessions = 1
  SessionTtl = 0
  TicketTtls = {1}
  MaxConnections = 2
  MaxFrames = 2
SPECIFICATION FairSpec
INVARIANTS SocketsAreSound
PROPERTIES CloseFreesRoles
