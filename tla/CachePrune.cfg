SPECIFICATION Spec
CONSTANTS
    m1 = m1
    m2 = m2
    v1 = v1
    v2 = v2
    Module = {m1, m2}
    Version = {v1, v2}
    Bytes <- MCBytes
    Rank <- MCRank
    Commands <- MCCommands
    Caches <- MCCaches
    MaxOthers = 2
    NoEntry = NoEntry
    NoVersion = NoVersion
    NoLimit = NoLimit
INVARIANTS
    TypeOK
    AgeExact
    SizeExact
    AccountingExact
    LatestFollows
    VerifySound
CHECK_DEADLOCK FALSE
