\* The live scanner after a backfill of blocks that were replaced.
SPECIFICATION FairIndex
CONSTANTS
    Forks <- MCForks
    Blocks <- MCBlocks
    EventIDs = {"t1", "t2"}
    Logs <- MCLogs
    NoHash = NoHash
    StartBlock = 1
    BatchSize = 2
    Confirmations = 1
    ReorgDepth = 1
    LaggingNodes = FALSE
    Ids = {1}
    Heights = {1, 3}
    MaxRange = 3
    Handlers = {h1}
    None = None
PROPERTY
    FollowsConfirmed
