SPECIFICATION FairSpec
CONSTANTS
    Keys = {k1}
    Workers = {w1, w2}
    MaxRows = 2
    BatchSize = 2
    MaxCrashes = 1
    MaxOverlaps = 1
    MaxAborts = 1
    MaxFaults = 1
INVARIANTS
    ProcessedMeansDecided
PROPERTIES
    ReviewsGetExtracted
    QueuedJobSettles
