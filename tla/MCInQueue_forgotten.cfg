SPECIFICATION Spec
CONSTANTS
    A = A
    B = B
    u = u
    g = g
    s1 = s1
    s2 = s2
    NoData = NoData
    NoEvent = NoEvent
    Truncated = Truncated
    OutQueues <- MCOutQueues
    Users <- MCUsers
    Groups <- MCGroups
    Schools <- MCSchools
    Conf <- MCConf
    Mapping <- MCMapping
    Inputs <- MCUserInputs
    Faults = {}
    MaxEvents = 2
    MaxCrashes = 1
INVARIANTS
    NoAuthorityForgotten
