SPECIFICATION SignOutSpec
CONSTANTS
  Requests = {r1, r2}
  Users = {alice}
  Emails = {e1}
  Usernames = {n1}
  Passwords = {w1}
  MaxTokens = 2
  None = None
INVARIANT SignedOutOfEvery
