SPECIFICATION Spec
CONSTANTS
  Requests = {r1, r2}
  ApiEvents = {e1}
  ApiDaily = {}
  Thresholds <- MCThresholds
  Milestones <- MCMilestones
  BaseXp = 80
  NoHintsXp = 20
  DailyXp = 30
  ApiXp = 100
  NoRow = NoRow
  MaxInFlight = 2
  MaxDay = 1
  MaxFailures = 0
INVARIANT
  XpIsSumOfAwards
CHECK_DEADLOCK FALSE
