SPECIFICATION FairSpec
CONSTANTS
    Workers = {w1, w2}
    MaxPages = 2
    MaxRetries = 1
    MaxRepeats = 1
    MaxFailures = 1
INVARIANTS
    TypeOK
    CompletedIsWhole
    CountersFollowPages
    FailuresAreAhead
PROPERTIES
    RunSettles
