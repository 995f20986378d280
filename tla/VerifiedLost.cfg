SPECIFICATION Spec
CONSTANTS
    pa = pa
    ProjectFiles = {pa}
    Committed = {pa}
    OwnFiles = {}
    SnapshotsKept = 1
    MaxWrites = 2
    MaxNodes = 2
    MaxFaults = 0
INVARIANTS
    VerifiedWorkSurvives
CHECK_DEADLOCK FALSE
