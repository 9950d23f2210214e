SPECIFICATION MCSpec
CONSTANTS
    spaced = spaced
    underscored = underscored
    x = x
    y = y
    None = None
    Unread = Unread
    Buckets = {b1, b2, b3}
    Drives = {drive}
    Documents = {d1}
    Files <- CollidingFiles
    SafeName <- MCSafeName
    Workers = {w1, w2}
    MaxVersions = 2
    MaxCalls = 7
SYMMETRY RequestSymmetry
INVARIANTS
    TypeOK
    EveryVersionStored
    FewPrimaries
PROPERTIES
    ImplementsLog
    FreshCallsKeepOnePrimary
    FreshPutsKeepVersions
