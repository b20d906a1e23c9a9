SPECIFICATION Spec
CONSTANTS
    Exported <- MCExported
    GitHosts <- MCGitHosts
    Skipped <- MCSkipped
    Rank <- MCRank
    Archive <- MCArchive
    Tree <- MCTree
    Worlds <- MCWorlds
    Requests <- MCRequests
    Repeated <- MCRepeated
    MaxLookups = 2
INVARIANTS
    TypeOK
    SelectionHonoured
    AnswerVouched
    FailureReported
    NonePassedOver
PROPERTIES
    NetworkLast
CHECK_DEADLOCK FALSE
