SPECIFICATION MCSpec
CONSTANTS
    Accounts = {alice, bob}
    Contracts = {contract}
    ZeroAccount = zeroAccount
    None = none
    RootHashes = {h1, h2}
    ZeroHash = zeroHash
    IssuerHashes = {i1, i2}
    Reasons = {reason}
    MaxEvents = 4
    PublicKeys = {k1, k2, k3}
    ZeroKey = zeroKey
    Names = {n1, n2}
    Dids = {d1, d2}
    Values = {v1, v2}
    Secrets = {o1, o2}
    Zero = zero
    MaxCount = 3
    r1 = r1
    r2 = r2
    r3 = r3
    s1 = s1
    s2 = s2
    Roots = {r1, r2, r3}
    Claims <- MCClaims
    ZeroRoot = zeroRoot
    ZeroBytes = zeroBytes
    Thresholds = {17, 18, 20}
    AsOf <- MCAsOf
    Levels = {1, 2}
    CountrySets <- MCCountrySets
    Verifiers <- MCVerifiers
    Epochs = {e1, e2}
    Apps = {app}
    TreeCapacity = 3
SYMMETRY Symmetry
INVARIANTS
    SetIsCurrent
    TrustedHasItsKey
    AttestedIsTrue
    OnePerPerson
PROPERTIES
    RevocationFinal
    ActiveKeepsOwner
