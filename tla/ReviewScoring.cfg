SPECIFICATION FairSpec
CONSTANTS
    h1 = h1
    h2 = h2
    Hotels = {h1, h2}
    HotelOf <- MCHotelOf
    Workers = {w1, w2}
    NumReviews = 2
    BatchSize = 1
    MaxAttempts = 2
    MaxRetries = 1
    MaxTriggers = 2
    MaxCrashes = 1
    MaxFaults = 1
    MaxEvents = 3
    MaxOverlaps = 1
    MaxExpiries = 1
INVARIANTS
    TypeOK
    AttemptsBounded
    ExtractedOnce
    QuietIsDone
PROPERTIES
    ReviewsSettle
