SPECIFICATION Spec
SYMMETRY Symmetry
CONSTANTS
  Requests = {r1, r2, r3}
  ApiEvents = {e1, e2}
  ApiDaily = {e2}
  Thresholds <- MCThresholds
  Milestones <- MCMilestones
  BaseXp = 80
  NoHintsXp = 20
  DailyXp = 30
  ApiXp = 100
  NoRow = NoRow
  MaxInFlight = 1
  MaxDay = 3
  MaxFailures = 1
INVARIANTS
  RowsAgree
  StreakIsEarned
  MilestoneIsEarned
  LevelAnnouncedOnce
PROPERTY
  ImplementsXpLedger
CHECK_DEADLOCK FALSE
