CONSTANTS
  Session = {s1, s2}
  Instance = {i1, i2}
  Handle = {h1, h2, h3}
  None = None
  MaxSessions = 1
SPECIFICATION RedisSpec
SYMMETRY Symmetry
INVARIANTS RolesAreSound
PROPERTIES RedisKeepsPromise
CHECK_DEADLOCK FALSE
