SPECIFICATION PageSpec
CONSTANTS
  Requests = {r1, r2}
  Users = {alice}
  h1 = h1
  h2 = h2
  Handles <- MCHandles
  AnyTopic = any
  Topics = {any, graphs}
  SourceTTL = 1
  ContextTime = 1
  CallTime = 1
  MLTime = 1
  TTL = 2
  None = None
SYMMETRY Symmetry
INVARIANTS
  PageTypeOK
  AnswersNameTheUser
  AnswersAreRecent
  WithinBudget
  ShownIsSelected
