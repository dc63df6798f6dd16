SPECIFICATION Spec
CONSTANTS
  r1 = r1  r2 = r2
  v1a = v1a  v1b = v1b  v2a = v2a  v2b = v2b
  c1 = c1  c2 = c2  c3 = c3
  NoRun = NoRun  NoDeal = NoDeal
  Runs = {r1, r2}
  Sources = {v1a, v1b}
  Targets = {v2a}
  Claims = {c1, c2, c3}
  ClaimsOf <- TwoDealClaims
  Pairs <- MixedPairs
  BatchSize = 1
  MaxFaults = 2
  AcceptsRepeats = TRUE
  OneAdoptPerDeal = FALSE
INVARIANT OneReportPerDeal
CHECK_DEADLOCK FALSE
