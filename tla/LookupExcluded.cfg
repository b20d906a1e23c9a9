SPECIFICATION Spec
CONSTANTS
    Exported <- MCExported
    GitHosts <- MCGitHosts
    Skipped <- MCSkipped
    Rank <- MCRank
    Archive <- MCArchive
    Tree <- MCTree
    Worlds <- MCWorlds
    Requests <- MCRequests
    Repeated <- MCRepeated
    MaxLookups = 1
INVARIANTS
    ExcludedReported
CHECK_DEADLOCK FALSE
