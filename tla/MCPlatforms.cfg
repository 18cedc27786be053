SPECIFICATION Spec
CONSTANTS
  Requests = {r1, r2}
  Users = {alice}
  codeforces = codeforces
  leetcode = leetcode
  h1 = h1
  h2 = h2
  Platform <- MCPlatform
  Handles <- MCHandles
  Endpoints <- MCEndpoints
  Cleared <- MCCleared
  MaxClock = 2
  None = None
SYMMETRY Symmetry
INVARIANTS
  TypeOK
  SnapshotsAreOfOneHandle
  SyncAccountsForAll
  DashboardKeepsUp
CHECK_DEADLOCK FALSE
