SPECIFICATION Spec
CONSTANTS
    j1 = j1
    j2 = j2
    h1 = h1
    h2 = h2
    clean = clean
    food = food
    alias = alias
    both = both
    view = view
    outlook = outlook
    closed = closed
    Jobs = {j1, j2}
    Rescorings = {r1}
    Hotels = {h1, h2}
    Keys = {clean, food, alias, both, view, outlook, closed}
    Names = {"view", "clean", "food", "alias", "both", "closed"}
    NameOf <- MCNameOf
    AliasOf <- MCAliasOf
    Prior = {clean, food}
    Inactive = {closed}
    Mentioned <- MCMentioned
    Ids <- MCIds
    Scores = {1, 2}
    ReviewScore = 3
    Files <- MCFiles
    BatchSize = 2
    MaxFailures = 1
INVARIANTS
    PropagatedUnchanged
