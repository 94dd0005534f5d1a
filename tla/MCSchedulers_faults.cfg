SPECIFICATION FairSpec
CONSTANTS
    u1 = u1
    u2 = u2
    u3 = u3
    g1 = g1
    g2 = g2
    Users <- MCUsers
    Groups <- MCGroups
    NumTasks = 2
    MaxChanges = 2
    MaxFaults = 2
INVARIANTS
    TypeOK
    UsersBeforeGroups
    DoneMeansScheduled
PROPERTIES
    CommandEnds
CHECK_DEADLOCK FALSE
