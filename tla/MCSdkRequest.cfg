SPECIFICATION MCSpec
CONSTANTS
    h1 = h1
    h2 = h2
    r1 = r1
    r2 = r2
    s1 = s1
    Holders = {h1, h2}
    Roots = {r1, r2}
    Claims <- MCClaims
    ZeroRoot = ZeroRoot
    ZeroBytes = ZeroBytes
    Ask <- MCAsk
    Months <- MCMonths
    Operator = Operator
    ZeroAccount = ZeroAccount
    None = None
    Families = {"age", "age_range", "kyc", "email", "nationality", "residency", "personhood"}
    TreeCapacity = 2
    MaxAttempts = 2
    MaxRestarts = 1
    MaxPauses = 1
    Ttl = 3
    Grace = 2
    MaxDepth = 2
    Off = Off
    Cards = {1, 2}
    Stamped <- MCStamped
    Vct <- MCVct
    Provable <- MCProvable
    DcqlAsked <- MCAsked
    Predicated <- MCPredicated
    NoExt = NoExt
    MaxMonths = 2
INVARIANT
    PredicatesEnforced
\* A presentation ends.
CHECK_DEADLOCK FALSE
