SPECIFICATION ViewSpec
CONSTANTS
    MaxSubmits = 1
    MaxSockets = 3
    MaxRequests = 2
INVARIANTS NoStrayConnection PageTellsTruth LockEndsWithSession
