SPECIFICATION HelpersSpec
CONSTANTS
  Ids = {a, b, c, d}
  PageSize = 2
  Deals = {d1, d2, d3, d4}
  Own = {d1, d2, d3}
  StateCount = 3
  Limit = 2
  MaxNonce = 4
  MaxEvictions = 2
  Manifests <- MCManifests
  Inputs <- MCInputs
  DigestSize = 2
  ShiftLimit = 28
  Mantissa = 11
  Typed <- MCTyped
  Decimals = {2, 3}
  SectorSizes = {0, 3, 8}
  TiB = 32
  c1 = c1  c2 = c2  c3 = c3
  Sources = {1, 2}
  ClaimsOf <- MCClaimsOf
  Targets = {1}
  Others = {}
  Allocations <- MCAllocations
  SizeOf <- MCSizeOf
  Proposals = {3, 4}
  PerCent = 50
INVARIANTS ReadComplete MissedOnlyByShifts PiecesExact ConversionsExact LostForGood
PROPERTIES ClearWhenTold ReadsEnd
CHECK_DEADLOCK FALSE
