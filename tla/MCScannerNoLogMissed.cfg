SPECIFICATION Spec
CONSTANTS
    Forks <- MCForks
    Blocks <- MCBlocks
    EventIDs = {"t1", "t2", "t3"}
    Logs <- MCLogs
    NoHash = NoHash
    StartBlock = 1
    BatchSize = 1
    Confirmations = 0
    ReorgDepth = 1
    LaggingNodes = FALSE
INVARIANTS
    NoLogMissed
