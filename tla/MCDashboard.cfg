SPECIFICATION PageSpec
CONSTANTS
  Weeks = 2
  DaysPerWeek = 2
  MaxStreak = 2
  Strong = 1
  Moderate = 3
  SkillCounts <- MCSkillCounts
  Offsets <- MCOffsets
  MaxDay = 5
INVARIANTS PageTypeOK StreakIsEarned PanelsAreExact
