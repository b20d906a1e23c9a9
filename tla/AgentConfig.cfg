SPECIFICATION Spec
CONSTANTS
    p = p
    q = q
    Proc = {p, q}
    Commands <- MCCommands
    Event <- MCEvent
    Matcher <- MCMatcher
    Default <- MCDefault
    Files <- MCFiles
    Hosts <- MCHosts
    MaxEdits = 1
    MaxCrashes = 1
    NoLog = NoLog
INVARIANTS
    TypeOK
    ForeignSurvives
    Idempotent
    WritersSeen
    PreflightGuards
CHECK_DEADLOCK FALSE
