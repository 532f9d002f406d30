SPECIFICATION Spec
CONSTANTS
    s1 = s1
    s2 = s2
    a1 = a1
    a2 = a2
    Students = {s1}
    Attempts = {a1, a2}
    Owner <- BothByS1
    StartTokens = {k1}
    EndTokens = {x1}
    Requests = {r1, r2}
    Devices = {d1}
    Enders = {e1}
    CronWorkers = {}
    ManualStatuses = {}
    Validity = 0
    Grace = 0
    ClassLength = 0
    LastIssue = 0
    MaxTime = 1
    MaxFailures = 0
    NoToken = NoToken
    NoAttempt = NoAttempt
SYMMETRY Interchangeable
INVARIANTS AcceptedAttemptsAreLegs ResolverCasesAreExhaustive
CHECK_DEADLOCK FALSE
