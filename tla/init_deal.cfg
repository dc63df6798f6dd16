SPECIFICATION FairSpec
CONSTANTS
  s1 = s1  s2 = s2  d1 = d1  d2 = d2  NoDeal = NoDeal
  Sessions = {s1, s2}
  Deals = {d1, d2}
  MaxFaults <- AnyFault
  Alone = {d1}
INVARIANTS
  DepositOnce
  SentWorks
  DoneUnlessDeclined
PROPERTIES
  EventuallyReady
  ImplementsSetup
CHECK_DEADLOCK FALSE
