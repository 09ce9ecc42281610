SPECIFICATION FairSpec
CONSTANTS
    Txs = {t1, t2}
    Lanes = {l1}
    MaxRetries = 1
    ShortGrace = 1
    ChainTTL = 2
    LongGrace = 3
    MaxFaults = 1
INVARIANTS
    DisjointReservations
PROPERTIES
    PeriodicReapOnlyDead
    EverySubmitSettles
    ReservationReleased
