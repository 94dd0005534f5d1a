SPECIFICATION Spec
CONSTANTS
    c = c
    p = p
    a = a
    b = b
    d = d
    f = f
    r1 = r1
    r2 = r2
    r3 = r3
    s = s
    x = x
    NoUid = NoUid
    Foreign = Foreign
    Absent = Absent
    Users <- MCUsers
    Names <- MCNames
    Uids <- MCUids
    Sources <- MCSources
    DefaultSource = s
    TargetSource = s
    Inputs <- SourcelessInputs
    Mapped = {1, 2}
    FirstSchools = {1}
    Mappings = {"student", "teacher", "staff"}
    ForeignNames = {f}
    ForeignAccount <- MCForeignAccount
    MaxChanges = 2
    MaxFaults = 0
    MaxCancels = 0
    MaxSchoolChanges = 0
INVARIANTS
    UnsetSourceUidIsFound
CHECK_DEADLOCK FALSE
