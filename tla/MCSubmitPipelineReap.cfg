SPECIFICATION Spec
CONSTANTS
    Txs = {t1, t2}
    Lanes = {l1}
    MaxRetries = 1
    ShortGrace = 1
    ChainTTL = 2
    LongGrace = 3
    MaxFaults = 0
PROPERTY
    ShortfallReapOnlyDead
