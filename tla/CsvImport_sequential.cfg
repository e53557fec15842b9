SPECIFICATION Spec
CONSTANTS
    Keys = {k1, k2}
    Workers = {w1, w2}
    MaxRows = 3
    BatchSize = 2
    MaxOverlaps = 0
    MaxCrashes = 2
    MaxAborts = 1
    MaxFaults = 1
SYMMETRY WorkerSymmetry
INVARIANTS
    TypeOK
    ExactlyOnce
    CountersAddUp
    InsertedCountsNewKeys
    CatalogFollowsFile
    DeliveredJobIsStaged
PROPERTIES
    LedgerSpec
