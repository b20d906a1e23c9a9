SPECIFICATION Spec
CONSTANTS
    p = p
    q = q
    a = a
    b = b
    md = md
    link = link
    exe = exe
    v1 = v1
    v2 = v2
    v3 = v3
    Running = v1
    Proc = {p, q}
    Commands <- MCCommands
    Name = {a, b, md, link, exe}
    Links <- MCLinks
    Exe = exe
    Ignored = {b}
    IgnoreFails = {md}
    Declined = {2}
    MaxRecords = 0
    Touched = {a}
    MaxNames = 2
    MaxEdits = 2
    MaxFaults = 1
    MaxSeconds = 1
    User = User
    Absent = Absent
    Blank = Blank
    Mixed = Mixed
    Corrupt = Corrupt
    NoSum = NoSum
    Before = Before
INVARIANTS
    TypeOK
    FormOfLastEdit
    Whole
    RecordsKept
CHECK_DEADLOCK FALSE
