SPECIFICATION AccessSpec
CONSTRAINT MCFocus
SYMMETRY MCSymmetry
CONSTANTS
    UserIDs = {u1, u2}
    Handlers = {h1, h2}
    NoUser = NoUser
    Tokens = {t1, t2}
    KeyIDs = {k1}
    None = None
    uiSessionIdleTTL = 2
    uiSessionAbsoluteTTL = 3
    uiSessionMaximum = 1
    uiAuthFailureLimit = 2
    uiAuthFailureWindow = 1
    uiAuthFailureMaximum = 2
    MaxTime = 3
INVARIANTS
    OneInitialAdmin
    ServedAsCurrent
    LogoutIsFinal
    FailuresBounded
PROPERTIES
    RevokedKeyRefused
    AcceptedInTime
