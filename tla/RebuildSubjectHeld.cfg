\* The log of a balance with two holders.
SPECIFICATION Spec
CONSTANTS
    a = a
    b = b
    alice = alice
    bob = bob
    Resources = {a}
    Slots = {alice, bob}
    ResourceOf <- SubjectHeld
    Workers = {w1}
    ChunkSize = 2
    MaxEvents = 2
    MaxFaults = 0
INVARIANT LogIsRebuildable
