\* Two callers race over two intents that share a projection; one call fails or
\* one caller crashes, anywhere.
SPECIFICATION Spec
CONSTANTS
    c1 = c1
    c2 = c2
    i1 = i1
    i2 = i2
    k1 = k1
    k2 = k2
    Callers = {c1, c2}
    Intents = {i1, i2}
    Payloads = {p1}
    Keys = {k1, k2}
    CommitIds = {d1, d2, d3, d4}
    Soundness = {TRUE, FALSE}
    None = None
    Orphan = Orphan
    MaxFaults = 1
    Footprint <- MCFootprint
SYMMETRY Symmetry
INVARIANTS
    TypeOK
    ExactlyOnce
    AllOrNothing
    LedgerIsHistory
    NoStrandedReservation
PROPERTIES
    ImplementsAtomicLedger
