SPECIFICATION Spec
CONSTANTS
    c = c
    p = p
    a = a
    b = b
    d = d
    f = f
    r1 = r1
    r2 = r2
    r3 = r3
    s = s
    x = x
    NoUid = NoUid
    Foreign = Foreign
    Absent = Absent
    Users <- MCUsers
    Names <- MCNames
    Uids <- MCUids
    Sources <- MCSources
    DefaultSource = s
    TargetSource = s
    Inputs <- MCInputs
    Mapped = {1, 2}
    FirstSchools = {1}
    Mappings = {"student", "teacher", "staff"}
    ForeignNames = {f}
    ForeignAccount <- MCForeignAccount
    MaxChanges = 4
    MaxFaults = 1
    MaxCancels = 1
    MaxSchoolChanges = 1
INVARIANTS
    TypeOK
    Converges
    OneAccountPerUser
PROPERTIES
    OnlyOwnAccounts
    ImplementsReplication
CHECK_DEADLOCK FALSE
