SPECIFICATION Spec
CONSTANTS
  Requests = {r1, r2}
  Users = {alice, bob}
  Emails = {e1, e2}
  Usernames = {n1, n2}
  Passwords = {w1, w2}
  MaxTokens = 3
  None = None
SYMMETRY Symmetry
INVARIANTS
  TypeOK
  SessionsHaveUsers
  SpentTokensAreGone
PROPERTIES
  DeletedStayDeleted
  SessionsEndForGood
