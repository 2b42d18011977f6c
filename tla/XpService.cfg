SPECIFICATION FairSpec
CONSTANTS
  Requests = {r1, r2}
  ApiEvents = {e1}
  ApiDaily = {e1}
  Thresholds <- MCThresholds
  Milestones <- MCMilestones
  BaseXp = 80
  NoHintsXp = 20
  DailyXp = 30
  ApiXp = 100
  NoRow = NoRow
  MaxInFlight = 2
  MaxDay = 2
  MaxFailures = 0
INVARIANTS
  TypeOK
  XpWithinAwards
  DoneWasPaid
PROPERTY
  EveryRequestEnds
CHECK_DEADLOCK FALSE
