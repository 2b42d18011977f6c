SPECIFICATION Spec
CONSTANTS
  Events = {e1, e2}
  Consumers = {c1, c2}
  MaxAttempts = 3
  Prefetch = 2
  MaxCrashes = 0
INVARIANT DLQOnlyAfterMaxRetries
CHECK_DEADLOCK FALSE
