SPECIFICATION Spec
CONSTANTS
  Requests = {r1, r2}
  Users = {alice}
  Emails = {e1, e2}
  Usernames = {n1}
  Passwords = {w1, w2}
  MaxTokens = 1
  None = None
PROPERTY ProfileKeepsPassword
