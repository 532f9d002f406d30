CONSTANTS
    Attempts = {t1, t2}
    Instances = {i1, i2}
    SnapshotTtl = 1
    MemoTtl = 1
    FetchTime = 1
    MaxToggles = 1
    MaxFaults = 1
    None = None
    Orphan = Orphan
SPECIFICATION FairSpec
INVARIANTS OneExecutionAtATime
PROPERTIES SettingTakesHold ClientIsAnswered
