SPECIFICATION FairSpec
CONSTANTS
  j1 = j1  j2 = j2  v1a = v1a  v2a = v2a  c1 = c1  c2 = c2  NoDeal = NoDeal
  Jobs = {j1, j2}
  Sources = {v1a}
  Targets = {v2a}
  Claims = {c1, c2}
  ClaimsOf <- OneDeal
  Pairs <- OnePair
  BatchSize = 1
  Requested <- OneRequest
  Padding = 0
  Lockups = {1, 3}
  MaxNotice = 2
  SameRun = 1
  MaxFaults <- EveryFault
INVARIANT FinishedWhole
PROPERTIES
  EventuallySettled
  ReplacedBeforeClosed
  RefusedOnlyIfSettled
CHECK_DEADLOCK FALSE
