SPECIFICATION Spec
CONSTANTS
    k = k
    elsewhere = elsewhere
    pupil = pupil
    teacher = teacher
    stranger = stranger
    Absent = Absent
    Classes <- MCClasses
    Pupils = {pupil}
    Teachers = {teacher}
    Strangers = {stranger}
    UnknownSchools = {elsewhere}
    MaxChanges = 3
    MaxTargetChanges = 3
    MaxFaults = 1
    MaxCancels = 1
INVARIANTS
    TypeOK
    ClassConverges
PROPERTIES
    LocalMembersStay
CHECK_DEADLOCK FALSE
