SPECIFICATION LimiterSpec
CONSTANTS
  Max = 2
  Window = 3
  Horizon = 7
  MaxCount = 4
  NoTTL = NoTTL
INVARIANTS
  LimiterTypeOK
  Throttled
PROPERTIES
  WindowIsFixed
CHECK_DEADLOCK FALSE
