SPECIFICATION FairSpec
CONSTANTS
    A = A
    B = B
    u = u
    g = g
    s1 = s1
    s2 = s2
    NoData = NoData
    NoEvent = NoEvent
    Truncated = Truncated
    OutQueues <- MCOutQueues
    Users <- MCUsers
    Groups <- MCGroups
    Schools <- MCSchools
    Conf <- MCConfOneActive
    Mapping <- MCMapping
    Inputs <- MCInputs
    Faults = {"ldap", "disk"}
    MaxEvents = 3
    MaxCrashes = 1
INVARIANTS
    TypeOK
    ReadyBeforeRaw
    RedeliveredOnlyAfterError
    PartialOnlyAfterError
    UnlinkedOnlyIfCopied
    CurrentSchoolsServed
    NoneForgottenWhileUp
PROPERTIES
    HandOverInOrder
    ImplementsHandOver
    Drains
CHECK_DEADLOCK FALSE
