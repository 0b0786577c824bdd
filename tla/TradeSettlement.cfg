SPECIFICATION Spec
CONSTANTS
  Assets = {"x", "y", "z"}
  Currencies = {"gold", "silver"}
  Subjects = {"s", "b"}
  None = None
  Malformed = Malformed
  MaxAmount = 2
  TenantOf <- MCTenantOf
  Opening <- MCOpening
  Calls <- MCCalls
  Singles <- MCSingles
PROPERTIES
    ValueAsDeclared
    BundlesAreWhole
