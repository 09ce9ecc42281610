SPECIFICATION FairSpec
CONSTANTS
    ChannelCap = 3
    MaxCuts = 1
\* A presentation ends.
CHECK_DEADLOCK FALSE
INVARIANTS
    SlotOwned
    HandoverComplete
    NonceOnce
    VerdictFromHolder
PROPERTIES
    TerminalReachesVerifier
    HandlersReturn
