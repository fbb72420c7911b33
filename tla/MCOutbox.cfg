SPECIFICATION FairSpec
CONSTANTS
    EventIDs = {e1}
    Destinations = {d1, d2}
    Contents = {c1}
    Processes = {p1, p2}
    Tokens = {t1, t2}
    NoEvent = NoEvent
    NoToken = NoToken
    Workers = 1
    BatchSize = 2
    HTTPTimeout = 1
    LeaseDuration = 2
    MaxAttempts = 2
    Backoff <- MCBackoff
    PollInterval = 1
    MaxDelay = 1
    MaxLate = 1
INVARIANTS
    DeliveredWasReceived
    LeaseCoversRequest
PROPERTIES
    ImplementsLedger
    
