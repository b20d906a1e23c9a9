SPECIFICATION Spec
CONSTANTS
    p = p
    q = q
    Proc = {p, q}
    Commands <- MCInstall
    Event <- MCEvent
    Matcher <- MCMatcher
    Default <- MCDefault
    Files <- MCForeignFiles
    Hosts <- MCHosts
    MaxEdits = 1
    MaxCrashes = 1
    NoLog = NoLog
INVARIANT ForeignPreserved
CHECK_DEADLOCK FALSE
