SPECIFICATION Spec
CONSTANTS
    None = None
    Absent = Absent
    NoExpiry = NoExpiry
    Capacity = 3
    RefillPerSecond = 2
    Second = 3
    MaxKeys = 2
    BadKeys = {}
    MaxIdLength = 6
    PrefixLength = 4
    MaxBytes = 8
    MaxJsonDepth = 3
    MaxNonceBytes = 2
    c1 = c1
    c2 = c2
    Callers <- MCCallers
    Requests <- MCRequests
    Evaluators = 2
    Policy = "RequireAll"
    InitialKeys <- MCInitialKeys
    LateKey <- MCLateKey
    Managed = {"k1"}
    MaxTime = 2
    MaxCalls = 2
    MaxRevocations = 1
SYMMETRY CallerSymmetry
CHECK_DEADLOCK FALSE
INVARIANTS
    
    SignersAreTrusted
    AuthorityHolds
    LimitsHold
    
