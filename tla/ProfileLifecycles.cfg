SPECIFICATION Spec
CONSTANTS
  a = a
  b = b
  t1 = t1
  t2 = t2
  None = None
  Malformed = Malformed
  c1 = c1
  c2 = c2
  Callers = {c1, c2}
  Subjects = {a, b}
  Kinds = {"asset", "paid", "stack", "balance", "entitlement", "meter", "listing", "escrow", "custom"}
  MaxAmount = 3
  Base = 3
  MaxMantissa = 20
  MaxScale = 2
  MaxDigits = 3
  Invalid = Invalid
  MaxEventsPerCommit = 2
  MaxBatch = 2
  MaxVersion = 3
  Intents <- MCIntents
  CustomProfiles <- MCCustomProfiles
  CommandOperation <- MCCommandOperation
  ValidCommand <- MCValidCommand
  Reduce <- MCReduce
  ValidState <- MCValidState
SYMMETRY Symmetry
CHECK_DEADLOCK FALSE
INVARIANTS
    RowsAreValid
    LifecyclesAgree
    
PROPERTIES
    TransfersConserve
    LifecyclesHold
