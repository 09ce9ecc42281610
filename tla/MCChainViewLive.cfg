SPECIFICATION MCFairSpec
CONSTANTS
    Keys = {k1}
    Credential = k1
    MaxVersions = 3
    MirrorVersions = 3
    MaxRestarts = 1
    Polled = TRUE
    Clients = {c1}
    MaxRequests = 1
    MaxCrashes = 0
PROPERTIES
    ViewCatchesUp
    MirrorHeals
