SPECIFICATION MCSpec
CONSTANTS
    Keys = {k1}
    Credential = k1
    MaxVersions = 3
    MirrorVersions = 3
    MaxRestarts = 0
    Polled = TRUE
    Clients = {c1}
    MaxRequests = 1
    MaxCrashes = 0
INVARIANT
    VerifyNeedsNoRoundTrip
