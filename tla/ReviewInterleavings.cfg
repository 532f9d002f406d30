CONSTANTS
    Clients = {c1, c2}
    Reviewers = {r1, r2}
    Submissions = {s1, s2}
SPECIFICATION ReviewSpec
INVARIANTS TeachersWordStands
PROPERTIES OpenDisputeStays
SYMMETRY Interchangeable
