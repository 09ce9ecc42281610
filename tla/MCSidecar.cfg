SPECIFICATION MCSpec
CONSTANTS
    Jobs = {j1, j2, j3}
    Poison = {j2}
    MaxBatch = 2
    BadHex = {j3}
    MaxRestarts = 1
    MaxAborts = 1
    JoinOrder <- MCJoinOrder
    Predicates = {"age"}
    DelayMax = 4
    MaxFaults = 2
    Coins = {c1, c2}
    Guard = 2
    MaxQueued = 2
    MaxInFlight = 2
    MaxFailures = 2
INVARIANTS
    InOnePlace
    EndedTruthfully
    ServedIsWhole
PROPERTIES
    Promises
    WokenIfInTime
    ComesBack
    TopUpRegistered
\* A relayed transaction ends with its stream.
CHECK_DEADLOCK FALSE
