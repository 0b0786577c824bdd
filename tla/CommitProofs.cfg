SPECIFICATION Spec
CONSTANTS
    None = None
    E1 = E1
    E2 = E2
    TreeDepth = 2
    KeyBits <- MCKeyBits
    Tenants <- MCTenants
    Rows <- MCRows
    Plans <- MCPlans
    Executors <- MCExecutors
    MaxCommits = 2
    MaxStored = 3
    Group = 8
    Groups = 3
    LastGroup = 4
    IntBytes = 2
    DomainLength = 3
    ControlByte = 0
    MaxVersion = 3
    PathDepth = 4
    KeyByteBits = 2
    MaxIntentBytes = 4
    EventSchema = EventSchema
    PathKeys <- MCPathKeys
SYMMETRY MCSymmetry
CHECK_DEADLOCK FALSE
INVARIANTS
    RootsBind
    ChainsAreTrue
    BundlesTellTheTruth
    CanonicalMeansCurrent
    PortableAgrees
