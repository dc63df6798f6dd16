CONSTANTS
  Sessions = {s1, s2}
  N = 2
  Faults = 2
  Failures = 1
SPECIFICATION FairSpec
INVARIANTS OneDealPerPiece DoneIsTrue
PROPERTIES HandledUnlessFailed
