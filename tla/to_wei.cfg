SPECIFICATION Spec
CONSTANTS
  Bits = 11
  Typed <- MCTyped
  Decimals = {2, 3, 4}
  SectorSizes = {0, 8}
  TiB = 32
INVARIANT ToWeiConverts
CHECK_DEADLOCK FALSE
