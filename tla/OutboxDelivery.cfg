\* One row and its corrupt sibling through a worker and two consumers.
SPECIFICATION DeliverySpec
CONSTANTS
    Rows = {r1, bad}
    Poison = {bad}
    Workers = {w1}
    Consumers = {k1, k2}
    BatchSize = 2
    MaxTicks = 1
    Policy <- MCQuarantine
    Nobody = Nobody
    MaxFaults = 1
    MaxLapses = 2
INVARIANTS
    RerunsAreExcused
    AppliedIsReal
PROPERTIES
    DeliveriesComplete
