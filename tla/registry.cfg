SPECIFICATION FairSpec
CONSTANTS
  o1 = o1
  o2 = o2
  p1 = p1
  p2 = p2
  p3 = p3
  a1 = a1
  a2 = a2
  Nobody = Nobody
  Orgs = {o1, o2}
  Providers = {p1, p2, p3}
  Payees = {a1, a2}
  Sizes = {2}
  SpOrg = o1
  MinDays = 2
  MaxDays = 4
  MaxClasses = 3
  MinPrice = 1
  MaxProviders = 2
  MaxOffers = 2
  Databases <- MCDatabases
  Committed <- MCCommitted
  Selections <- MCSelections
  MaxFaults <- MCMaxFaults
INVARIANTS SyncedWhenThrough FailsForCause
PROPERTY EventuallySynced
