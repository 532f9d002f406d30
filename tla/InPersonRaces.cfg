SPECIFICATION Spec
CONSTANTS
    s1 = s1
    s2 = s2
    a1 = a1
    a2 = a2
    Students = {s1}
    Attempts = {a1, a2}
    Owner <- BothByS1
    Tokens = {k1, k2}
    Requests = {r1, r2}
    Devices = {d1}
    Enders = {e1}
    CronWorkers = {}
    ManualStatuses = {"pending"}
    Validity = 0
    Grace = 0
    LastIssue = 0
    MaxTime = 1
    MaxFailures = 0
    NoToken = NoToken
    NoAttempt = NoAttempt
SYMMETRY Interchangeable
INVARIANTS TypeOK OneAcceptedAttempt EndedSessionIsSettled OneTokenEarnsCredit
PROPERTIES ImplementsLedger AbsenceIsNeverCreditedByScan ScanRespectsOverride OnlyThePendingAreNotified
CHECK_DEADLOCK FALSE
