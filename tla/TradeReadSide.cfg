SPECIFICATION Spec
CONSTANTS
  Tenants <- MCTenants
  AssetsOf <- MCAssetsOf
  FirstOwners <- MCFirstOwners
  Trades = {1, 2}
  MaxCommits = 3
  MaxFailures = 1
  MaxRebuilds = 1
  Offers <- MCOffers
  PayTenants = {2}
  None = None
CHECK_DEADLOCK FALSE
INVARIANTS
    IndexIsTrue
    
    ProofsAreExact
