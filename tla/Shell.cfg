SPECIFICATION Spec
CONSTANTS
  None = None
  Users = {a, b}
  MaxRequests = 2
INVARIANTS TypeOK ShownUserIsSession
PROPERTY BlankEnds
