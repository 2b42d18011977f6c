SPECIFICATION Spec
CONSTANTS
  shop = shop
  Webhooks = {shop}
  Subscribed <- MCSubscribed
  Events = {solved, ended}
  Workers = {v1, v2}
  RetentionLimit = 1
  MaxRetries = 1
  MaxStalled = 1
  MaxUpsets = 1
SYMMETRY Alike
INVARIANTS
  TypeOK
  CompletedWasAccepted
  RowsTellTheTruth
  NoBrokenPromise
  CopiesBounded
  HistoryWithinLimit
CHECK_DEADLOCK FALSE
