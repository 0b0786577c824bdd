\* Plain, settlement, trade and linked batches, planned or durable, with
\* conflicting payloads and retries.
SPECIFICATION Spec
CONSTANTS
    Callers = {c1, c2}
    Jobs <- MCBatches
    Payloads = {p1, p2}
    None = None
    MaxCalls = 3
SYMMETRY Symmetry
CHECK_DEADLOCK FALSE

    
PROPERTIES
    PlanningClaimsNothing
