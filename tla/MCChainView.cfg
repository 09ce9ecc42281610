SPECIFICATION MCSpec
CONSTANTS
    Keys = {k1, k2}
    Credential = k1
    MaxVersions = 4
    MirrorVersions = 3
    MaxRestarts = 1
    Polled = FALSE
    Clients = {c1, c2}
    MaxRequests = 2
    MaxCrashes = 1
SYMMETRY Symmetry
INVARIANTS
    ReaderMissesNothing
    NoPhantomRevocation
    AckedStaysListed
