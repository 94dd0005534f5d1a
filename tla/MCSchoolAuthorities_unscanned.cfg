SPECIFICATION Spec
CONSTANTS
    A = A
    B = B
    v1 = v1
    v2 = v2
    None = None
    Truncated = Truncated
    Unset = Unset
    Invalid = Invalid
    Unknown = Unknown
    Names <- MCName
    Versions <- MCVersions
    Mappings <- MCMappings
    PatchDocs <- AllDocs
    MaxKills = 0
    MaxErrors = 0
INVARIANTS
    ActiveIsScanned
