\* Two overlapping rebuilds of owner-based resources, through failures and
\* while events are committed.
SPECIFICATION FairSpec
CONSTANTS
    a = a
    b = b
    alice = alice
    bob = bob
    Resources = {a, b}
    Slots = {a, b}
    ResourceOf <- OwnerBased
    Workers = {w1, w2}
    ChunkSize = 2
    MaxEvents = 3
    MaxFaults = 1
INVARIANTS
    ProgressIsTrue
PROPERTIES
    CatchesUp
