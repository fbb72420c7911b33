SPECIFICATION FairDatabaseSpec
SYMMETRY MCSymmetry
CONSTANTS
    Operators = {o1, o2}
    BackupFiles = {b1, b2}
    None = None
    Torn = Torn
    MaxCommits = 2
    Events = {e1, e2}
    Requests = {r1, r2}
    Settings = {2}
    Off = Off
    FileSettings = Off
    NoRow = NoRow
    Maximums = {0, 1}
    MaxKey = 5
    Capacity = 3
    PageSizes = {1, 2}
INVARIANTS
    DatabaseTypeOK
    BackupIsSnapshot
    RestoredIsBackup
    NothingLost
    OnePrune
    SettingsAgree
    ListedOnce

    
