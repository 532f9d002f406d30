SPECIFICATION Spec
CONSTANTS
    s1 = s1
    s2 = s2
    a1 = a1
    a2 = a2
    Students = {s1}
    Attempts = {a1, a2}
    Owner <- BothByS1
    StartTokens = {k1}
    EndTokens = {x1}
    Requests = {r1}
    Devices = {d1}
    Enders = {e1}
    CronWorkers = {}
    ManualStatuses = {"pending"}
    Validity = 0
    Grace = 1
    ClassLength = 0
    LastIssue = 0
    MaxTime = 2
    MaxFailures = 1
    NoToken = NoToken
    NoAttempt = NoAttempt
SYMMETRY Interchangeable
INVARIANTS ResolutionMatchesLegs OnlyScannersStayPending
PROPERTIES ImplementsLedger NoCreditAfterClose
CHECK_DEADLOCK FALSE
