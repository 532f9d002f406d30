CONSTANTS
    Logins = {l1, l2}
    Devices = {d1, d2}
    MaxInterventions = 3
    None = None
SPECIFICATION Spec
SYMMETRY Interchangeable
INVARIANTS SingleActiveSession RevocationReachesDecided
CHECK_DEADLOCK FALSE
