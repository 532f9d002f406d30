SPECIFICATION FairSpec
CONSTANTS
    s1 = s1
    Scans = {s1}
    Tabs = {t1, t2}
    Handlers = {h1, h2}
    Batches <- Twice
    Attempts = 2
    MaxFaults = 1
    None = None
INVARIANTS NothingIsLost CompletedJobsAnswer
PROPERTIES AnswersAreFinal QueueDrains
CHECK_DEADLOCK FALSE
