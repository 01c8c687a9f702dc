CONSTANTS
  Window = 1
  MaxRequests = 2
  MaxSessions = 2
  MaxNumber = 2
  MaxMessages = 3
  Transport = {"webrtc", "websocket"}
  Codec = {"av1", "h264"}
  Sound = {"opus", "aac"}
  Backend = {"Automatic", "uinput", "Disabled"}
  Automatic = "Automatic"
  Invalid = "unknown"
  MaxSize = 2
  Profiles = 3
  UpgradeAfter = 2
  MaxSamples = 3
  MaxManual = 1
  MaxMade = 2
  Page = {p1, p2}
  MaxWrites = 3
  MaxDbFailures = 1
  MaxPlans = 2
  MaxClicks = 6
  MaxCalls = 4
  MaxEntries = 2
  MaxLogFailures = 2
  MaxCandidates = 2
  MaxPending = 1
  TitleCount = 3
  PageSize = 2
  Matches = {{1}, {2, 3}, {}}
  NoGame = 0
  MaxToggles = 2
  HostTab = {t1, t2}
  HostId = {"h1", "h2", "h3"}
  Endpoint = {"lan", "cloud"}
  Lacks = {{}, {"audio"}, {"publisher"}}
  Absent = Absent
  Stored <- StoredHosts
  MaxHostClicks = 3
SPECIFICATION PagePartsSpec
INVARIANTS SessionIsBounded PlayerAndHostAgree RecordsKept PagesShowState
PROPERTIES EffectsInOrder QualityIsSteady HandoffIsScoped
CHECK_DEADLOCK FALSE
