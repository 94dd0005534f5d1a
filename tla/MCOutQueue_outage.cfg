SPECIFICATION Spec
CONSTANTS
    u = u
    v = v
    g = g
    NoObject = NoObject
    Users <- MCUsers
    Groups <- MCGroups
    Rejects = FALSE
    Skips = FALSE
    DiskErrors = FALSE
    Corruption = FALSE
    MaxFiles = 2
    MaxCancels = 0
    MaxOutages = 1
PROPERTIES
    UnreachableIsRetried
