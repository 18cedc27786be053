SPECIFICATION Spec
CONSTANTS
  Platforms = {codeforces, leetcode}
  Sessions = {s1, s2}
  MaxRequests = 2
  None = None
INVARIANTS TypeOK DotsAreCurrent RevokedStaysGone
