SPECIFICATION Spec
CONSTANTS
    Students = {s1, s2}
    Requests = {r1, r2}
    Roles = {president}
    President = president
    Operations <- AllOperations
    MaxFailures = 1
SYMMETRY Interchangeable
INVARIANTS CountMatchesRoster DelegatesAreMembers SomeRequestCanProceed
PROPERTIES CreatorsAreAuthorized
