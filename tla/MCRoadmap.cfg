SPECIFICATION Spec
CONSTANTS
  Tabs = {tab1}
  Requests = {r1, r2}
  Modes = {"weekly"}
  MaxGoals = 2
  MaxRoadmaps = 2
  None = None
INVARIANTS
  TypeOK
  CleanPageIsCurrent
  PlanFollowsGoal
  ShownIsStored
PROPERTIES
  GenerationEnds
