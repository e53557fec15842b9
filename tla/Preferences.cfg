SPECIFICATION Spec
CONSTANTS
    a = a
    b = b
    r1 = r1
    r2 = r2
    r3 = r3
    Requests = {r1, r2, r3}
    Menu <- MCMenu
    Attrs = {a, b}
    Exact <- MCExact
    Alias <- MCAlias
    Prior <- MCPrior
    Hotels = {1, 2, 3, 4, 5, 6, 7}
    LocatedIn <- MCLocatedIn
    Places = {"home", "away"}
    TypeOf <- MCTypeOf
    Types = {"hostel", "resort"}
    Scores <- MCScores
    Sourced <- MCSourced
    MaxCandidates = 3
    Rating <- MCRating
    MaxCrashes = 1
CHECK_DEADLOCK FALSE
INVARIANTS
    TypeOK
    RankingObeys
    ToldIsStored
PROPERTIES
    ReplaceIsWhole
    SnapshotIsHonest
    RequestsEnd
