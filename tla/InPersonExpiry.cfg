SPECIFICATION FairSpec
CONSTANTS
    s1 = s1
    s2 = s2
    a1 = a1
    a2 = a2
    Students = {s1}
    Attempts = {a1}
    Owner <- OneScan
    Tokens = {k1}
    Requests = {r1}
    Devices = {d1}
    Enders = {e1}
    CronWorkers = {w1, w2}
    ManualStatuses = {"absent"}
    Validity = 0
    Grace = 1
    LastIssue = 0
    MaxTime = 2
    MaxFailures = 1
    NoToken = NoToken
    NoAttempt = NoAttempt
PROPERTIES DeadlineClosesSession
CHECK_DEADLOCK FALSE
