\* A drain and a supervised worker over two healthy rows and a corrupt one;
\* the drain releases it, the worker quarantines it.
SPECIFICATION DrainSpec
CONSTANTS
    w1 = w1
    w2 = w2
    Rows = {r1, r2, bad}
    Poison = {bad}
    Workers = {w1, w2}
    BatchSize = 2
    MaxTicks = 1
    Drains = {w1}
    Policy <- MCMixed
    Nobody = Nobody
    MaxFaults = 2
SYMMETRY Symmetry
INVARIANTS
    TypeOK
    DuplicatesAreExcused
    DeliveredWasPublished
    DrainsAreTrue
PROPERTIES
    SettledIsFinal
