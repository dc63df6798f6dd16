SPECIFICATION FairSpec
CONSTANTS
  a1 = a1
  a2 = a2
  a3 = a3
  Adapters = {a1, a2, a3}
  Placement = {a1, a3}
  Connected = {a1, a2}
  Prices = {3, 5}
  Limits = {3}
  Sector = 2
  MinDagSize = 1
  Months = {1}
  Withdrawals = {1}
  MaxDeals = 2
  Unwanted = {1}
  Manifests <- MCManifests
  Bounds <- MCBounds
INVARIANTS MismatchTold NeverOverfunded CoveredWhenDone
PROPERTY EventuallyEnded
