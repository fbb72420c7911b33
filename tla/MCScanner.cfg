SPECIFICATION FairSpec
CONSTANTS
    Forks <- MCForks
    Blocks <- MCBlocks
    EventIDs = {"t1", "t2", "t3"}
    Logs <- MCLogs
    NoHash = NoHash
    StartBlock = 1
    BatchSize = 2
    Confirmations = 1
    ReorgDepth = 1
    LaggingNodes = TRUE
INVARIANTS
    HistoryIsChain
    EventsOnRecordedBlocks
    CheckpointDescribesEvents
PROPERTIES
    ImplementsIndex
    CatchesUp
