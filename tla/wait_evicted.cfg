SPECIFICATION FairSpec
CONSTANTS
  MaxNonce = 4
  MaxEvictions = 1
PROPERTY
  WaitExits
