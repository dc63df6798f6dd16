SPECIFICATION CommandsSpec
CONSTANTS
  c1 = c1  s1 = s1
  Claims = {c1}
  Sectors = {s1}
  SectorOf <- MCSectorOf
  TermStart <- MCTermStart
  Terms = {3}
  Expirations = {3}
  Duration = 2
  MaximumTerm = 7
  Reserve = 1
  ActiveMargin = 1
  AcceptedMargin = 3
  Drift = 1
  Requested = {6}
  MaxSent = 1
  MaxEpoch = 3
  Runs = {r1, r2}
  Pieces = {p1, p2}
  Good = {m1, m2}
  Bad = {bad}
  Retries = 1
  Tracking <- MCTracking
  Released = {"main", "master"}
  MaxCommits = 2
  MaxLocal = 1
  MaxTxs = 2
  MaxFaults = 1
INVARIANTS ExtensionTaken OutlivesService NotShortAgain HasAllPieces LastWordHolds
PROPERTIES OnboardedUnlessTorn UpdatesWhatWasChecked
CHECK_DEADLOCK FALSE
