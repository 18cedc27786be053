SPECIFICATION FairSpec
CONSTANTS
  a = a
  b = b
  Tabs <- MCTabs
  Public = {b}
  Quota <- MCQuota
  MaxPairs = 3
INVARIANTS
  TypeOK
  CarriedOutOnce
  JarKeepsSession
PROPERTIES
  CallsSettle
CHECK_DEADLOCK FALSE
