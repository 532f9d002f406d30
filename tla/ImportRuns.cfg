SPECIFICATION Spec
CONSTANTS
    s1 = s1
    s2 = s2
    Students = {s1, s2}
    Chunks = 2
    Rows <- TwoChunks
    JobRows = {s2}
    JobMode = "update_existing"
    Registered = {}
    Runs = {u1, u2}
    Polls = {p1}
    JobAttempts = 2
    MaxFailures = 1
    NoOne = NoOne
    Before = Before
    Job = Job
SYMMETRY Interchangeable
INVARIANTS FullReportIsComplete NothingOverwrittenUnseen HandedOutIsGone
