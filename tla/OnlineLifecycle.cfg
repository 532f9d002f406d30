SPECIFICATION FairSpec
CONSTANTS
    s1 = s1
    s2 = s2
    a1 = a1
    a2 = a2
    Students = {}
    Attempts = {}
    Owner <- NoScan
    StartTokens = {k1, k2}
    EndTokens = {x1, x2}
    Requests = {}
    Devices = {d1}
    Enders = {e1}
    CronWorkers = {w1, w2}
    ManualStatuses = {}
    Validity = 1
    Grace = 0
    ClassLength = 1
    LastIssue = 1
    MaxTime = 3
    MaxFailures = 1
    NoToken = NoToken
    NoAttempt = NoAttempt
INVARIANTS EndedSessionIsDisarmed NoEarlyAutoEnd
PROPERTIES ActiveSessionEnds
CHECK_DEADLOCK FALSE
