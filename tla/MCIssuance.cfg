SPECIFICATION MCSpec
CONSTANTS
    Requests = {r1, r2, r3, r4}
    Forms = {f1, f2}
    MaxBatch = 2
    MaxCuts = 1
    Tabs = {t1, t2}
    Passkeys = {p1, p2}
    Cards = {c1, c2}
    None = none
    MaxOps = 4
SYMMETRY Symmetry
INVARIANTS
    OneBatch
    VerifiedHasClaims
    SlotFreed
PROPERTIES
    SlotForSealedSeed
    WipedIsRevoked
    ExportWhole
\* Requests and operations are finite in number: the model stops when all are served.
CHECK_DEADLOCK FALSE
