\* A backfill beside the live scanner.
SPECIFICATION SpecIndex
CONSTANTS
    Forks <- MCForks
    Blocks <- MCBlocks
    EventIDs = {"t1", "t2"}
    Logs <- MCLogs
    NoHash = NoHash
    StartBlock = 1
    BatchSize = 2
    Confirmations = 0
    ReorgDepth = 1
    LaggingNodes = FALSE
    Ids = {1}
    Heights = {1, 2, 3}
    MaxRange = 3
    Handlers = {h1}
    None = None
INVARIANT
    Recovered
