\* Two clients keep asking for one intent id, with the same payload or
\* different ones; one failure, lost answer or crash, anywhere.
SPECIFICATION FairSpec
CONSTANTS
    c1 = c1
    c2 = c2
    i1 = i1
    i2 = i2
    k1 = k1
    k2 = k2
    Callers = {c1, c2}
    Intents = {i1}
    Payloads = {p1, p2}
    Keys = {k1}
    CommitIds = {d1, d2, d3}
    Soundness = {TRUE}
    None = None
    Orphan = Orphan
    MaxFaults = 1
    Footprint <- MCSharedFootprint
INVARIANTS
    StableReplay
PROPERTIES
    EventuallyAnswered
