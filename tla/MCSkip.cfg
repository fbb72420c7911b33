SPECIFICATION Spec
CONSTANTS
    Forks <- MCForks
    Blocks <- MCBlocks
    EventIDs = {"t"}
    Logs <- MCLogs
    NoHash = NoHash
    Handlers = {h1}
    StartBlock = 0
    Confirmations = 0
    ReorgDepth = 1
    MaxRevision = 3
    MaxTokens = 1
    None = None
INVARIANTS
    GapsAreAudited
    HistoryIsAncestry
PROPERTIES
    SkipsWhileStopped
