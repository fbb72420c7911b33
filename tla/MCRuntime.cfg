\* Safety and liveness of the runtime manager.
SPECIFICATION FairSpec
CONSTANTS
    a = a
    c = c
    i1 = i1
    i2 = i2
    None = None
    Listeners <- MCListeners
    Configs <- MCConfigs
    ChainOf <- MCChainOf
    Idle <- MCIdle
    Instances <- MCInstances
    MaxRevision = 1
INVARIANTS
    OneScanner
    NoClientLeaks
    PausedIsStopped
    ReadyIsServed
PROPERTY
    KeepsOldScanner
    Converges
    ShutsDown
