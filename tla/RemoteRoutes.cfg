SPECIFICATION Spec
CONSTANTS
    p1 = p1
    p2 = p2
    inner = inner
    outer = outer
    fork = fork
    v1 = v1
    v2 = v2
    good = good
    bad = bad
    NoProxy = NoProxy
    NoModule = NoModule
    NoVersion = NoVersion
    NoArchive = NoArchive
    Proxy <- MCProxy
    Module <- MCModule
    Candidates <- MCCandidates
    Depth <- MCDepth
    Version <- MCVersion
    Archive <- MCArchive
    Authentic = good
    Queries <- MCQueries
INVARIANTS
    TypeOK
    FallbackRule
    ErrorByRank
    PrivacyRespected
    OnlyVerified
    LatestIsEvidence
CHECK_DEADLOCK FALSE
