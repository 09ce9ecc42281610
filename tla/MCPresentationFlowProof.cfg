SPECIFICATION FairSpec
CONSTANTS
    ChannelCap = 2
    MaxCuts = 1
\* A presentation ends.
CHECK_DEADLOCK FALSE
PROPERTY
    ProofDelivered
