SPECIFICATION FairSpec
CONSTANTS
    u = u
    v = v
    g = g
    NoObject = NoObject
    Users <- MCUsers
    Groups <- MCGroups
    Rejects = TRUE
    Skips = TRUE
    DiskErrors = TRUE
    Corruption = TRUE
    MaxFiles = 3
    MaxCancels = 2
    MaxOutages = 1
INVARIANTS
    TypeOK
    FilesAccountedFor
PROPERTIES
    HandledInOrder
    TargetNeverGoesBack
    ImplementsHandOver
    Drains
CHECK_DEADLOCK FALSE
