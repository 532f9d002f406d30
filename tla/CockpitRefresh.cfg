CONSTANTS
    MaxVersion = 3
    MaxMutations = 2
    MaxFailures = 1
SPECIFICATION FairSpec
INVARIANTS MutationNotUndone NoPhantomMutation QuietPageIsCurrent
PROPERTIES PollingFindsTheEnd
