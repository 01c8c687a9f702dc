SPECIFICATION BrowserPartsSpec
CONSTANTS
    MaxPublishers = 2
    MaxRuntimes = 2
    MaxOffers = 2
    MaxChunks = 2
    MaxStreams = 2
    MaxRecorders = 4
    Core = {"disc", "web"}
    NeedsFirmware = {"disc"}
    RunsInBrowser = {"web"}
    GameFile = {"g1", "g2"}
    FirmwareFile = {"f"}
    ProfileRecord <- RuntimeRecords
    MaxGames = 2
    MaxRemembered = 2
    Manifest <- Manifests
    Bundle <- Bundles
    Feed <- Feeds
    Platform = {"linux", "win32"}
    TheCore = "core"
    MaxLoads = 3
    UserProfile = {"gaming", "family"}
    Site = {"s"}
    Nil = Nil
    MaxQuestions = 2
    MaxOpenings = 2
INVARIANTS DoneAsAsked StopFreesRole
CHECK_DEADLOCK FALSE
