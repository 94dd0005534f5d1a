SPECIFICATION Spec
CONSTANTS
    A = A
    B = B
    v1 = v1
    v2 = v2
    None = None
    Truncated = Truncated
    Unset = Unset
    Invalid = Invalid
    Unknown = Unknown
    Names <- MCNames
    Versions <- MCVersion
    Mappings <- MCMappings
    PatchDocs <- AllDocs
    MaxKills = 1
    MaxErrors = 1
INVARIANTS
    TypeOK
    AcknowledgedConfigStays
    RestartKeepsConfig
    ScannedUnlessFailed
    ScansOnlyForActive
    ListedHaveDirectories
SYMMETRY Symmetry
CHECK_DEADLOCK FALSE
