\* Safety and liveness of the backfill jobs.
SPECIFICATION FairSpec
CONSTANTS
    l1 = l1
    l2 = l2
    h1 = h1
    h2 = h2
    None = None
    Ids <- MCIds
    Listeners <- MCListeners
    Handlers <- MCHandlers
    Heights = {0, 1, 3}
    StartBlock = 1
    BatchSize = 2
    MaxRange = 3
INVARIANTS
    Exclusive
    NothingSkipped
PROPERTY
    FinalStays
    Drains
